---- MODULE Spec2Model ----
(***************************************************************************)
(* canvas-cli: the layered configuration store (handlers/config_handler.py)*)
(* and the interactive selector (canvas_cli/tui.py).                       *)
(*                                                                         *)
(* Text is a sequence of one-character strings, so that the JSON written   *)
(* to a scope file and the regular expression of the fuzzy filter are      *)
(* computed character by character, as the code computes them.             *)
(***************************************************************************)
EXTENDS Integers, Sequences, FiniteSets, TLC

VARIABLES
    fs,        \* path -> text of the file at that path, or NoFile
    dirs,      \* the directories that exist
    last,      \* the last operation: its arguments, the files before it, its outcome
    items,     \* ListSelector.items
    query,     \* ListSelector.query
    filtered,  \* ListSelector.filtered
    selected,  \* ListSelector.selected, an index from 0 as in the code
    top,       \* ListSelector.top
    hovered,   \* ListSelector.hovered: {} for None, {i} for index i
    opts,      \* columns, mouse, allow_escape_back and the terminal height of the run
    pc,        \* where ListSelector.run stands: "draw", "getch", "done"; "none" outside a run
    event,     \* the event that run handled last
    result,    \* what run returned or raised
    page,      \* the page of the drill-down workflow; "none" outside a workflow
    course,    \* the course the workflow holds
    assignment, \* the assignment the workflow holds
    file_path, \* the file the workflow holds
    params,    \* the arguments the workflow was started with
    log        \* what the workflow did so far: fetches, selections, prompts, calls

storeVars == <<fs, dirs, last>>
selVars == <<items, query, filtered, selected, top, hovered, opts, pc, event, result>>
wfVars == <<page, course, assignment, file_path, params, log>>
vars ==
    <<fs, dirs, last, items, query, filtered, selected, top, hovered, opts, pc, event, result,
      page, course, assignment, file_path, params, log>>

-----------------------------------------------------------------------------
(* Python values stored in a config mapping: str and int; None is the      *)
(* absent value of dict.get.                                               *)

PyStr(s) == <<"str", s>>
PyInt(n) == <<"int", n>>
None == <<"None">>

\* bool(v) of a str or int, as used by `or`
Truthy(v) ==
    IF v = None THEN FALSE
    ELSE IF v[1] = "str" THEN v[2] /= <<>>
    ELSE v[2] /= 0

\* a or b
PyOr(a, b) == IF Truthy(a) THEN a ELSE b

-----------------------------------------------------------------------------
(* A dict is the sequence of its <<key, value>> items in insertion order,  *)
(* no key twice.                                                           *)

EmptyDict == <<>>

DictKeys(d) == {d[i][1] : i \in 1..Len(d)}

\* key in d
DictHas(d, key) == key \in DictKeys(d)

\* d.get(key)
DictGet(d, key) ==
    IF DictHas(d, key)
    THEN LET i == CHOOSE j \in 1..Len(d) : d[j][1] = key IN d[i][2]
    ELSE None

\* d[key] = value: an existing key keeps its position, a new key is appended
DictSet(d, key, value) ==
    IF DictHas(d, key)
    THEN [i \in 1..Len(d) |-> IF d[i][1] = key THEN <<key, value>> ELSE d[i]]
    ELSE Append(d, <<key, value>>)

\* for k, v in src.items(): d[k] = v
RECURSIVE DictUpdate(_, _)
DictUpdate(d, src) ==
    IF src = <<>> THEN d
    ELSE DictUpdate(DictSet(d, Head(src)[1], Head(src)[2]), Tail(src))

\* del d[key]
DictDel(d, key) == SelectSeq(d, LAMBDA it : it[1] /= key)

\* d1 == d2 of two dicts: the same items, in any order
DictEq(d1, d2) == {d1[i] : i \in 1..Len(d1)} = {d2[i] : i \in 1..Len(d2)}

-----------------------------------------------------------------------------
(* json.dump(config, f, indent=2) and json.load(f), on flat mappings of    *)
(* str keys to str or int values.                                          *)

DigitChars == <<"0", "1", "2", "3", "4", "5", "6", "7", "8", "9">>

Whitespace == {" ", "\n", "\t", "\r"}

RECURSIVE IntToText(_)
IntToText(n) ==
    IF n < 0 THEN <<"-">> \o IntToText(-n)
    ELSE IF n < 10 THEN <<DigitChars[n + 1]>>
    ELSE IntToText(n \div 10) \o <<DigitChars[(n % 10) + 1]>>

\* the JSON string escapes of the characters of the model's alphabet
RECURSIVE JsonEscape(_)
JsonEscape(s) ==
    IF s = <<>> THEN <<>>
    ELSE (CASE Head(s) = "\"" -> <<"\\", "\"">>
            [] Head(s) = "\\" -> <<"\\", "\\">>
            [] Head(s) = "\n" -> <<"\\", "n">>
            [] OTHER -> <<Head(s)>>) \o JsonEscape(Tail(s))

JsonString(s) == <<"\"">> \o JsonEscape(s) \o <<"\"">>

JsonValue(v) == IF v[1] = "str" THEN JsonString(v[2]) ELSE IntToText(v[2])

RECURSIVE JsonItems(_, _)
JsonItems(config, i) ==
    <<"\n", " ", " ">> \o JsonString(config[i][1]) \o <<":", " ">>
        \o JsonValue(config[i][2])
        \o (IF i < Len(config) THEN <<",">> \o JsonItems(config, i + 1) ELSE <<>>)

json_dump(config) ==
    IF config = EmptyDict THEN <<"{", "}">>
    ELSE <<"{">> \o JsonItems(config, 1) \o <<"\n", "}">>

\* A parse step yields [ok, v, p]: the value read and the position after it.
ParseFail == [ok |-> FALSE, v |-> None, p |-> 0]

JSONDecodeError == <<"JSONDecodeError">>

RECURSIVE SkipWs(_, _)
SkipWs(t, p) == IF p <= Len(t) /\ t[p] \in Whitespace THEN SkipWs(t, p + 1) ELSE p

\* the characters of a string body from p to the closing quote
RECURSIVE ParseChars(_, _, _)
ParseChars(t, p, acc) ==
    IF p > Len(t) THEN ParseFail
    ELSE IF t[p] = "\"" THEN [ok |-> TRUE, v |-> acc, p |-> p + 1]
    ELSE IF t[p] = "\\" THEN
        IF p + 1 > Len(t) THEN ParseFail
        ELSE IF t[p + 1] \in {"\"", "\\"} THEN ParseChars(t, p + 2, Append(acc, t[p + 1]))
        ELSE IF t[p + 1] = "n" THEN ParseChars(t, p + 2, Append(acc, "\n"))
        ELSE ParseFail
    ELSE IF t[p] = "\n" THEN ParseFail
    ELSE ParseChars(t, p + 1, Append(acc, t[p]))

ParseString(t, p) ==
    IF p <= Len(t) /\ t[p] = "\"" THEN ParseChars(t, p + 1, <<>>) ELSE ParseFail

DigitOf(c) == (CHOOSE i \in 1..10 : DigitChars[i] = c) - 1

IsDigit(c) == \E i \in 1..10 : DigitChars[i] = c

RECURSIVE ParseDigits(_, _, _)
ParseDigits(t, p, acc) ==
    IF p <= Len(t) /\ IsDigit(t[p]) THEN ParseDigits(t, p + 1, acc * 10 + DigitOf(t[p]))
    ELSE [ok |-> TRUE, v |-> acc, p |-> p]

ParseInt(t, p) ==
    LET neg == p <= Len(t) /\ t[p] = "-"
        q == IF neg THEN p + 1 ELSE p
    IN  IF q <= Len(t) /\ IsDigit(t[q])
            /\ ~(t[q] = "0" /\ q + 1 <= Len(t) /\ IsDigit(t[q + 1]))
        THEN LET r == ParseDigits(t, q, 0)
             IN [ok |-> TRUE, v |-> PyInt(IF neg THEN -r.v ELSE r.v), p |-> r.p]
        ELSE ParseFail

ParseValue(t, p) ==
    IF p <= Len(t) /\ t[p] = "\""
    THEN LET r == ParseString(t, p)
         IN IF r.ok THEN [ok |-> TRUE, v |-> PyStr(r.v), p |-> r.p] ELSE ParseFail
    ELSE ParseInt(t, p)

\* the members of an object after "{" or ",": "key" : value, then "," or "}"
RECURSIVE ParseMembers(_, _, _)
ParseMembers(t, p, acc) ==
    LET k == ParseString(t, SkipWs(t, p)) IN
    IF ~k.ok THEN ParseFail ELSE
    LET c == SkipWs(t, k.p) IN
    IF ~(c <= Len(t) /\ t[c] = ":") THEN ParseFail ELSE
    LET v == ParseValue(t, SkipWs(t, c + 1)) IN
    IF ~v.ok THEN ParseFail ELSE
    LET e == SkipWs(t, v.p)
        d == DictSet(acc, k.v, v.v)
    IN  IF e > Len(t) THEN ParseFail
        ELSE IF t[e] = "," THEN ParseMembers(t, e + 1, d)
        ELSE IF t[e] = "}" THEN [ok |-> TRUE, v |-> d, p |-> e + 1]
        ELSE ParseFail

json_load(t) ==
    LET s == SkipWs(t, 1) IN
    IF ~(s <= Len(t) /\ t[s] = "{") THEN JSONDecodeError ELSE
    LET m == SkipWs(t, s + 1)
        r == IF m <= Len(t) /\ t[m] = "}"
             THEN [ok |-> TRUE, v |-> EmptyDict, p |-> m + 1]
             ELSE ParseMembers(t, s + 1, EmptyDict)
    IN  IF r.ok /\ SkipWs(t, r.p) > Len(t) THEN r.v ELSE JSONDecodeError

-----------------------------------------------------------------------------
(* The file system: the two scope files, and one path under a directory    *)
(* that may not exist yet.                                                 *)

GLOBAL_CONFIG_PATH == "GLOBAL_CONFIG_PATH"
LOCAL_CONFIG_PATH == "LOCAL_CONFIG_PATH"
NestedPath == "deeply/nested/directory/config.json"

HomeDir == "Path.home()"
CwdDir == "Path.cwd()"
NestedDir == "deeply/nested/directory"

Paths == {GLOBAL_CONFIG_PATH, LOCAL_CONFIG_PATH, NestedPath}

Parent(path) ==
    CASE path = GLOBAL_CONFIG_PATH -> HomeDir
      [] path = LOCAL_CONFIG_PATH -> CwdDir
      [] path = NestedPath -> NestedDir

NoFile == <<"NoFile">>

\* path.exists()
PathExists(f, path) == f[path] /= NoFile

\* str(path), one token of text
PathText(path) == <<path>>

NoError == "NoError"

load_config(f, path) ==
    IF PathExists(f, path) THEN json_load(f[path]) ELSE EmptyDict

\* the new mapping merged into the one the file holds, instead of replacing it
save_config_merging(f, ds, path, config) ==
    IF Parent(path) \in ds
    THEN LET old == load_config(f, path)
             kept == IF old = JSONDecodeError THEN EmptyDict ELSE old
         IN [fs |-> [f EXCEPT ![path] = json_dump(DictUpdate(kept, config))],
             raised |-> NoError]
    ELSE [fs |-> f, raised |-> "FileNotFoundError"]

\* open(path, "w") fails when the directory of path does not exist; otherwise the
\* file is truncated and the dump written.
save_config(f, ds, path, config) ==
    IF Parent(path) \in ds
    THEN [fs |-> [f EXCEPT ![path] = json_dump(config)], raised |-> NoError]
    ELSE [fs |-> f, raised |-> "FileNotFoundError"]

\* LOCAL_CONFIG_PATH.exists() does not change the result: both branches return LOCAL
get_config_path(f, global_, local) ==
    IF global_ THEN GLOBAL_CONFIG_PATH
    ELSE IF local \/ PathExists(f, LOCAL_CONFIG_PATH) THEN LOCAL_CONFIG_PATH
    ELSE LOCAL_CONFIG_PATH

\* the cascade by presence: a Local value wins even when it is falsy
get_cascading_config_value_by_presence(f, key, override) ==
    IF override /= None THEN override
    ELSE LET local_config == load_config(f, LOCAL_CONFIG_PATH)
             global_config == load_config(f, GLOBAL_CONFIG_PATH)
         IN IF DictHas(local_config, key) THEN DictGet(local_config, key)
            ELSE DictGet(global_config, key)

get_cascading_config_value(f, key, override) ==
    IF override /= None THEN override
    ELSE LET local_config == load_config(f, LOCAL_CONFIG_PATH)
             global_config == load_config(f, GLOBAL_CONFIG_PATH)
         IN PyOr(DictGet(local_config, key), DictGet(global_config, key))

-----------------------------------------------------------------------------
(* echo: a line is its format and the texts interpolated into it.          *)

\* str(v) in an f-string
StrOf(v) ==
    IF v = None THEN <<"N", "o", "n", "e">>
    ELSE IF v[1] = "str" THEN v[2]
    ELSE IntToText(v[2])

Line(fmt, args) == [fmt |-> fmt, args |-> args]

LineNotFound(key, where) == Line("Key '{key}' not found in {config_path}", <<key, where>>)
LineValue(key, value) == Line("{key}={value}", <<key, StrOf(value)>>)
LineSet(key, value, path) == Line("Set {key} to {value} in {config_path}", <<key, value, PathText(path)>>)
LineUnset(key, path) == Line("Unset {key} in {config_path}", <<key, PathText(path)>>)
LineBothScopes == Line("Cannot set config in both global and local scope at the same time.", <<>>)

\* what a handler leaves behind: the files, the lines echoed, the exception raised
Outcome(f, out, raised) == [fs |-> f, out |-> out, raised |-> raised]

-----------------------------------------------------------------------------
(* The handlers of `canvas config`.                                        *)

CascadeScopes(global_, local) == (global_ /\ local) \/ ~(global_ \/ local)

\* the scope flags ignored: every lookup cascades
handle_config_get_always_cascading(f, key, global_, local) ==
    LET value == get_cascading_config_value(f, key, None)
    IN  Outcome(f, IF value = None THEN <<LineNotFound(key, <<"global or local">>)>>
                   ELSE <<LineValue(key, value)>>, NoError)

handle_config_get(f, key, global_, local) ==
    LET config_path == get_config_path(f, global_, local)
        value == IF CascadeScopes(global_, local)
                 THEN get_cascading_config_value(f, key, None)
                 ELSE DictGet(load_config(f, config_path), key)
        where == IF CascadeScopes(global_, local)
                 THEN <<"global or local">>
                 ELSE PathText(config_path)
    IN  Outcome(f, IF value = None THEN <<LineNotFound(key, where)>>
                   ELSE <<LineValue(key, value)>>, NoError)

\* the target file is not loaded before the write: its other keys are lost
handle_config_set_without_load(f, ds, key, value, global_, local) ==
    IF global_ /\ local
    THEN Outcome(f, <<LineBothScopes>>, "BadParameter")
    ELSE LET config_path == get_config_path(f, global_, local)
             config == DictSet(EmptyDict, key, PyStr(value))
             saved == save_config(f, ds, config_path, config)
         IN  IF saved.raised /= NoError THEN Outcome(saved.fs, <<>>, saved.raised)
             ELSE Outcome(saved.fs, <<LineSet(key, value, config_path)>>, NoError)

\* no check of the scope flags: with both, get_config_path picks the Global file
handle_config_set_unchecked(f, ds, key, value, global_, local) ==
    LET config_path == get_config_path(f, global_, local)
        config == DictSet(load_config(f, config_path), key, PyStr(value))
        saved == save_config(f, ds, config_path, config)
    IN  IF saved.raised /= NoError THEN Outcome(saved.fs, <<>>, saved.raised)
        ELSE Outcome(saved.fs, <<LineSet(key, value, config_path)>>, NoError)

handle_config_set(f, ds, key, value, global_, local) ==
    IF global_ /\ local
    THEN Outcome(f, <<LineBothScopes>>, "BadParameter")
    ELSE LET config_path == get_config_path(f, global_, local)
             config == DictSet(load_config(f, config_path), key, PyStr(value))
             saved == save_config(f, ds, config_path, config)
         IN  IF saved.raised /= NoError THEN Outcome(saved.fs, <<>>, saved.raised)
             ELSE Outcome(saved.fs, <<LineSet(key, value, config_path)>>, NoError)

\* the file is saved whether or not the key was in it
handle_config_unset_always_saving(f, ds, key, global_, local) ==
    IF global_ /\ local
    THEN Outcome(f, <<>>, "BadParameter")
    ELSE LET config_path == get_config_path(f, global_, local)
             config == load_config(f, config_path)
             saved == save_config(f, ds, config_path, DictDel(config, key))
         IN  IF saved.raised /= NoError THEN Outcome(saved.fs, <<>>, saved.raised)
             ELSE IF DictHas(config, key)
             THEN Outcome(saved.fs, <<LineUnset(key, config_path)>>, NoError)
             ELSE Outcome(saved.fs, <<LineNotFound(key, PathText(config_path))>>, NoError)

handle_config_unset(f, ds, key, global_, local) ==
    IF global_ /\ local
    THEN Outcome(f, <<>>, "BadParameter")
    ELSE LET config_path == get_config_path(f, global_, local)
             config == load_config(f, config_path)
         IN  IF DictHas(config, key)
             THEN LET saved == save_config(f, ds, config_path, DictDel(config, key))
                  IN  IF saved.raised /= NoError THEN Outcome(saved.fs, <<>>, saved.raised)
                      ELSE Outcome(saved.fs, <<LineUnset(key, config_path)>>, NoError)
             ELSE Outcome(f, <<LineNotFound(key, PathText(config_path))>>, NoError)

\* {k: value for k in src.keys()}
DictConst(src, value) == [i \in 1..Len(src) |-> <<src[i][1], value>>]

ScopeGlobal == PyStr(<<"global">>)
ScopeLocal == PyStr(<<"local">>)

\* the two loops of the merge swapped: Global values override Local ones
ListedConfig_global_last(f, global_, local) ==
    IF CascadeScopes(global_, local)
    THEN LET globalConfig == load_config(f, get_config_path(f, TRUE, FALSE))
             localConfig == load_config(f, get_config_path(f, FALSE, TRUE))
         IN [config |-> DictUpdate(DictUpdate(EmptyDict, localConfig), globalConfig),
             origins |-> DictUpdate(DictConst(localConfig, ScopeLocal),
                                    DictConst(globalConfig, ScopeGlobal)),
             file_paths |-> DictUpdate(
                 DictConst(localConfig, PyStr(PathText(LOCAL_CONFIG_PATH))),
                 DictConst(globalConfig, PyStr(PathText(GLOBAL_CONFIG_PATH)))),
             scope_text |-> <<"cascaded (global and local)">>]
    ELSE LET config_path == get_config_path(f, global_, local)
             config == load_config(f, config_path)
             scope_text == IF global_ THEN ScopeGlobal ELSE ScopeLocal
         IN [config |-> config,
             origins |-> DictConst(config, scope_text),
             file_paths |-> DictConst(config, PyStr(PathText(config_path))),
             scope_text |-> scope_text[2]]

\* both scopes listed: the Global items, then the Local items over them
CascadedListing(globalConfig, localConfig) ==
    [config |-> DictUpdate(DictUpdate(EmptyDict, globalConfig), localConfig),
     origins |-> DictUpdate(DictConst(globalConfig, ScopeGlobal),
                            DictConst(localConfig, ScopeLocal)),
     file_paths |-> DictUpdate(
         DictConst(globalConfig, PyStr(PathText(GLOBAL_CONFIG_PATH))),
         DictConst(localConfig, PyStr(PathText(LOCAL_CONFIG_PATH)))),
     scope_text |-> <<"cascaded (global and local)">>]

\* one scope listed
ScopeListing(config, config_path, scope_text) ==
    [config |-> config,
     origins |-> DictConst(config, scope_text),
     file_paths |-> DictConst(config, PyStr(PathText(config_path))),
     scope_text |-> scope_text[2]]

\* the config, origins and file_paths that handle_config_list builds
ListedConfig(f, global_, local) ==
    IF CascadeScopes(global_, local)
    THEN CascadedListing(load_config(f, get_config_path(f, TRUE, FALSE)),
                         load_config(f, get_config_path(f, FALSE, TRUE)))
    ELSE ScopeListing(load_config(f, get_config_path(f, global_, local)),
                      get_config_path(f, global_, local),
                      IF global_ THEN ScopeGlobal ELSE ScopeLocal)

\* the line printed for item i of the listed config
ListedLine(l, i, show_origin, show_scope) ==
    LET k == l.config[i][1]
        v == StrOf(l.config[i][2])
        origin == DictGet(l.origins, k)[2]
        path == DictGet(l.file_paths, k)[2]
    IN  IF show_origin /\ show_scope
        THEN Line("{k}={v} (from {origins[k]} config at {file_paths[k]})", <<k, v, origin, path>>)
        ELSE IF show_origin THEN Line("{k}={v} (from {file_paths[k]})", <<k, v, path>>)
        ELSE IF show_scope THEN Line("{k}={v} ({origins[k]})", <<k, v, origin>>)
        ELSE Line("{k}={v}", <<k, v>>)

\* the lines echoed for a listing
ListedOutcome(f, l, show_origin, show_scope) ==
    IF l.config = EmptyDict
    THEN Outcome(f, <<Line("No config found in global or local scope", <<>>)>>, NoError)
    ELSE Outcome(f,
            [i \in 1..Len(l.config) |-> ListedLine(l, i, show_origin, show_scope)]
                \o <<Line("Listed config from {scope_text} scope", <<l.scope_text>>)>>,
            NoError)

handle_config_list(f, global_, local, show_origin, show_scope) ==
    ListedOutcome(f, ListedConfig(f, global_, local), show_origin, show_scope)

-----------------------------------------------------------------------------
(* Inputs of the configuration commands.                                   *)

MaxId == 1

KeyCourseId == <<"c", "o", "u", "r", "s", "e", "_", "i", "d">>
KeyAssignmentId == <<"a", "s", "s", "i", "g", "n", "m", "e", "n", "t", "_", "i", "d">>

Keys == {KeyCourseId, KeyAssignmentId}

\* the values given on the command line to `config set`: always text
CliValues == {<<>>, <<"a">>}

\* the override of a cascading lookup: a command-line parameter, or None
Overrides == {None, PyStr(<<>>), PyStr(<<"z">>)}

\* json.dumps(config, separators=(",", ":")): the same mapping, written by hand
RECURSIVE CompactItems(_, _)
CompactItems(config, i) ==
    JsonString(config[i][1]) \o <<":">> \o JsonValue(config[i][2])
        \o (IF i < Len(config) THEN <<",">> \o CompactItems(config, i + 1) ELSE <<>>)

CompactText(config) ==
    IF config = EmptyDict THEN <<"{", " ", "}">>
    ELSE <<"{">> \o CompactItems(config, 1) \o <<"}">>

\* what getch gave: a key, or KEY_MOUSE with the row and the click bit of getmouse()
Key(name) == [key |-> name]
Mouse(y, click) == [key |-> "KEY_MOUSE", y |-> y, click |-> click]

\* no ListSelector exists
NoSelector ==
    /\ items = <<>>
    /\ query = <<>>
    /\ filtered = <<>>
    /\ selected = 0
    /\ top = 0
    /\ hovered = {}
    /\ opts = [columns |-> FALSE, mouse |-> FALSE, allow_escape_back |-> FALSE, h |-> 0]
    /\ pc = "none"
    /\ event = Key("none")
    /\ result = [kind |-> "none"]

\* no workflow is running
NoWorkflow ==
    /\ page = "none"
    /\ course = None
    /\ assignment = None
    /\ file_path = None
    /\ params = <<>>
    /\ log = <<>>

\* Local {course_id: 10}, Global {course_id: 99, assignment_id: 5}
ExampleLocal == <<<<KeyCourseId, PyInt(10)>>>>
ExampleGlobal == <<<<KeyCourseId, PyInt(99)>>, <<KeyAssignmentId, PyInt(5)>>>>

\* the mappings a scope file may hold before the first command
InitDicts ==
    {EmptyDict, ExampleLocal, ExampleGlobal}
        \cup {<<<<KeyCourseId, PyInt(i)>>>> : i \in 0..MaxId}

InitTexts == {NoFile} \cup {json_dump(d) : d \in InitDicts} \cup {CompactText(d) : d \in InitDicts}

ProcessDirs == {HomeDir, CwdDir}

Started == [op |-> "start"]

Init ==
    /\ fs \in {f \in [Paths -> InitTexts] : f[NestedPath] = NoFile}
    /\ dirs = ProcessDirs
    /\ last = Started
    /\ NoSelector
    /\ NoWorkflow

-----------------------------------------------------------------------------
(* One action per command: the whole handler, from its arguments to the    *)
(* files and the lines it leaves.                                          *)

\* A process runs one command and exits: a command starts from Started.
Ran(op, args, res) == [op |-> op, args |-> args, pre |-> fs, res |-> res]

\* the process ends; the scope files are what persists to the next run
Exit ==
    /\ last /= Started
    /\ last' = Started
    /\ UNCHANGED <<fs, dirs>>
    /\ UNCHANGED selVars
    /\ UNCHANGED wfVars

CascadingGet ==
    /\ last = Started
    /\ \E key \in Keys, override \in Overrides :
        /\ last' = Ran("get_cascading_config_value", [key |-> key, override |-> override],
                       [ret |-> get_cascading_config_value(fs, key, override)])
        /\ UNCHANGED <<fs, dirs>>
        /\ UNCHANGED selVars
        /\ UNCHANGED wfVars

ConfigGet ==
    /\ last = Started
    /\ \E key \in Keys, global_ \in BOOLEAN, local \in BOOLEAN :
        \E r \in {handle_config_get(fs, key, global_, local)} :
        /\ fs' = r.fs
        /\ last' = Ran("handle_config_get",
                       [key |-> key, global_ |-> global_, local |-> local], r)
        /\ UNCHANGED dirs
        /\ UNCHANGED selVars
        /\ UNCHANGED wfVars

ConfigSet ==
    /\ last = Started
    /\ \E key \in Keys, value \in CliValues, global_ \in BOOLEAN, local \in BOOLEAN :
        \E r \in {handle_config_set(fs, dirs, key, value, global_, local)} :
        /\ fs' = r.fs
        /\ last' = Ran("handle_config_set",
                       [key |-> key, value |-> value, global_ |-> global_, local |-> local], r)
        /\ UNCHANGED dirs
        /\ UNCHANGED selVars
        /\ UNCHANGED wfVars

ConfigUnset ==
    /\ last = Started
    /\ \E key \in Keys, global_ \in BOOLEAN, local \in BOOLEAN :
        \E r \in {handle_config_unset(fs, dirs, key, global_, local)} :
        /\ fs' = r.fs
        /\ last' = Ran("handle_config_unset",
                       [key |-> key, global_ |-> global_, local |-> local], r)
        /\ UNCHANGED dirs
        /\ UNCHANGED selVars
        /\ UNCHANGED wfVars

ConfigList ==
    /\ last = Started
    /\ \E global_ \in BOOLEAN, local \in BOOLEAN, show_origin \in BOOLEAN, show_scope \in BOOLEAN :
        \E l \in {ListedConfig(fs, global_, local)} :
        \E r \in {handle_config_list(fs, global_, local, show_origin, show_scope)} :
        /\ fs' = r.fs
        /\ last' = Ran("handle_config_list",
                       [global_ |-> global_, local |-> local,
                        show_origin |-> show_origin, show_scope |-> show_scope],
                       [fs |-> r.fs, out |-> r.out, raised |-> r.raised, listed |-> l])
        /\ UNCHANGED dirs
        /\ UNCHANGED selVars
        /\ UNCHANGED wfVars

Next == CascadingGet \/ ConfigGet \/ ConfigSet \/ ConfigUnset \/ ConfigList \/ Exit

Spec == Init /\ [][Next]_vars

-----------------------------------------------------------------------------
(* load_config and save_config called directly, as the tests call them, on *)
(* the Local file and on a path whose directory does not exist at first.   *)

StorePaths == {LOCAL_CONFIG_PATH, NestedPath}

SaveValues == {PyStr(<<"a", "\"">>)} \cup {PyInt(i) : i \in 1..MaxId}

\* the mappings over Keys, in every insertion order
SaveDicts ==
    {EmptyDict}
        \cup {<<<<k, v>>>> : k \in Keys, v \in SaveValues}
        \cup {<<<<k, v>>, <<j, w>>>> : <<k, v, j, w>> \in
                {x \in Keys \X SaveValues \X Keys \X SaveValues : x[1] /= x[3]}}

\* "{This is not valid JSON"
InvalidText == <<"{", "T", "h", "i", "s">>

InitStore ==
    /\ fs \in {f \in [Paths -> {NoFile, InvalidText, CompactText(ExampleGlobal)}] :
                 f[NestedPath] = NoFile /\ f[GLOBAL_CONFIG_PATH] = NoFile}
    /\ dirs = ProcessDirs
    /\ last = Started
    /\ NoSelector
    /\ NoWorkflow

SaveConfig ==
    /\ last = Started
    /\ \E path \in StorePaths, config \in SaveDicts :
        LET r == save_config(fs, dirs, path, config) IN
        /\ fs' = r.fs
        /\ last' = Ran("save_config", [path |-> path, config |-> config],
                       [raised |-> r.raised])
        /\ UNCHANGED dirs
        /\ UNCHANGED selVars
        /\ UNCHANGED wfVars

LoadConfig ==
    /\ last = Started
    /\ \E path \in StorePaths :
        LET ret == load_config(fs, path) IN
        /\ last' = Ran("load_config", [path |-> path],
                       [ret |-> ret,
                        raised |-> IF ret = JSONDecodeError THEN "JSONDecodeError"
                                   ELSE NoError])
        /\ UNCHANGED <<fs, dirs>>
        /\ UNCHANGED selVars
        /\ UNCHANGED wfVars

\* nested_path.parent.mkdir(parents=True, exist_ok=True)
MkdirParents ==
    /\ last = Started
    /\ dirs' = dirs \cup {NestedDir}
    /\ UNCHANGED <<fs, last>>
    /\ UNCHANGED selVars
    /\ UNCHANGED wfVars

NextStore == SaveConfig \/ LoadConfig \/ MkdirParents \/ Exit

SpecStore == InitStore /\ [][NextStore]_vars

-----------------------------------------------------------------------------
(* fuzzy_filter: the regular expression built from the query, and its      *)
(* search in the key text of each item.                                    *)

\* the characters re.escape puts a backslash before
SpecialChars ==
    {"(", ")", "[", "]", "{", "}", "?", "*", "+", "-", "|", "^", "$", "\\", ".",
     "&", "~", "#", " ", "\t", "\n", "\r"}

re_escape(c) == IF c \in SpecialChars THEN <<"\\", c>> ELSE <<c>>

\* '.*?'.join(map(re.escape, query)), for a non-empty query
RECURSIVE JoinedPattern(_)
JoinedPattern(q) ==
    IF Len(q) = 1 THEN re_escape(q[1])
    ELSE re_escape(Head(q)) \o <<".", "*", "?">> \o JoinedPattern(Tail(q))

\* re.compile of such a pattern: an escaped character is that character, ".*?" is
\* a lazy run of characters other than a line break, and any other character is
\* itself
RECURSIVE re_compile(_)
re_compile(pattern) ==
    IF pattern = <<>> THEN <<>>
    ELSE IF pattern[1] = "\\" /\ Len(pattern) >= 2
    THEN <<<<"lit", pattern[2]>>>> \o re_compile(SubSeq(pattern, 3, Len(pattern)))
    ELSE IF Len(pattern) >= 3 /\ SubSeq(pattern, 1, 3) = <<".", "*", "?">>
    THEN <<<<"dotstar">>>> \o re_compile(SubSeq(pattern, 4, Len(pattern)))
    ELSE <<<<"lit", pattern[1]>>>> \o re_compile(Tail(pattern))

\* re.IGNORECASE, on the letters of the model's texts
Lower(c) ==
    CASE c = "A" -> "a"
      [] c = "B" -> "b"
      [] c = "C" -> "c"
      [] OTHER -> c

\* the compiled pattern matches text from position p on
RECURSIVE MatchAt(_, _, _, _)
MatchAt(toks, i, text, p) ==
    IF i > Len(toks) THEN TRUE
    ELSE IF toks[i][1] = "lit"
    THEN /\ p <= Len(text)
         /\ Lower(text[p]) = Lower(toks[i][2])
         /\ MatchAt(toks, i + 1, text, p + 1)
    ELSE \/ MatchAt(toks, i + 1, text, p)
         \/ /\ p <= Len(text)
            /\ text[p] /= "\n"
            /\ MatchAt(toks, i, text, p + 1)

\* regex.search(text) is not None
regex_search(toks, text) == \E p \in 1..(Len(text) + 1) : MatchAt(toks, 1, text, p)

\* key=lambda x: x["name"]
item_key(item) == item.name

fuzzy_filter(its, q) ==
    IF q = <<>> THEN its
    ELSE LET regex == re_compile(JoinedPattern(q))
         IN SelectSeq(its, LAMBDA item : regex_search(regex, item_key(item)))

-----------------------------------------------------------------------------
(* fuzzy_filter called on lists of items and queries.                      *)

MaxItems == 2
MaxQueryLen == 2

Item(id, name) == [id |-> id, name |-> name]

\* key texts: mixed case, both orders of two letters, a line break and a dot inside
ItemPool ==
    {Item(1, <<"A", "b">>), Item(2, <<"b", "a">>),
     Item(3, <<"a", "\n", "b">>), Item(4, <<"a", ".", "b">>)}

QueryChars == {"a", "B", "."}

\* the sequences over S of length at most n
RECURSIVE SeqsUpTo(_, _)
SeqsUpTo(S, n) ==
    IF n = 0 THEN {<<>>}
    ELSE LET shorter == SeqsUpTo(S, n - 1)
         IN shorter \cup {Append(x, e) : x \in {y \in shorter : Len(y) = n - 1}, e \in S}

InitFuzzy ==
    /\ fs = [p \in Paths |-> NoFile]
    /\ dirs = ProcessDirs
    /\ last = Started
    /\ NoSelector
    /\ NoWorkflow

FuzzyFilter ==
    /\ last = Started
    /\ \E its \in SeqsUpTo(ItemPool, MaxItems), q \in SeqsUpTo(QueryChars, MaxQueryLen) :
        last' = Ran("fuzzy_filter", [items |-> its, query |-> q],
                    [ret |-> fuzzy_filter(its, q), items |-> its])
    /\ UNCHANGED <<fs, dirs>>
    /\ UNCHANGED selVars
    /\ UNCHANGED wfVars

NextFuzzy == FuzzyFilter \/ Exit

SpecFuzzy == InitFuzzy /\ [][NextFuzzy]_vars

-----------------------------------------------------------------------------
(* ListSelector: __init__, draw and the event loop of run. Indices count   *)
(* from 0, and a negative index counts from the end, as in the code.       *)

MaxQuery == 3
TermHeight == 5

Apple == <<"A", "p", "p", "l", "e">>
Banana == <<"B", "a", "n", "a", "n", "a">>
Cherry == <<"C", "h", "e", "r", "r", "y">>

SelectorItems == <<Item(1, Apple), Item(2, Banana), Item(3, Cherry)>>

\* the printable characters typed (codes 32..126)
TypedChars == {"a", "n", " "}

Max(a, b) == IF a >= b THEN a ELSE b
Min(a, b) == IF a <= b THEN a ELSE b

row_offset == IF opts.columns THEN 3 ELSE 2

max_items == opts.h - (IF opts.columns THEN 4 ELSE 3)

Returned(item) == [kind |-> "item", v |-> item]
ReturnedNone == [kind |-> "None"]
ReturnedEscape == [kind |-> "__ESCAPE__"]
Raised(e) == [kind |-> "raise", error |-> e]
Running == [kind |-> "running"]

\* seq[i]
Subscript(seq, i) ==
    IF 0 <= i /\ i < Len(seq) THEN Returned(seq[i + 1])
    ELSE IF i < 0 /\ -i <= Len(seq) THEN Returned(seq[Len(seq) + i + 1])
    ELSE Raised("IndexError")

\* the blanks at the end are removed and the word before them stays
DeleteWord_blanks_only(q) ==
    IF q /= <<>> /\ q[Len(q)] \in Whitespace THEN SubSeq(q, 1, Len(q) - 1) ELSE <<>>

\* re.sub(r'\S+\s*$', '', q): the leftmost run of non-blanks that only blanks follow
DeleteWord(q) ==
    LET starts == {i \in 1..Len(q) :
                     \E k \in i..Len(q) :
                        /\ \A j \in i..k : q[j] \notin Whitespace
                        /\ \A j \in (k + 1)..Len(q) : q[j] \in Whitespace}
    IN  IF starts = {} THEN q
        ELSE SubSeq(q, 1, (CHOOSE i \in starts : \A j \in starts : i <= j) - 1)

InitSelector ==
    /\ fs = [p \in Paths |-> NoFile]
    /\ dirs = ProcessDirs
    /\ last = Started
    /\ items \in {<<>>, SelectorItems}
    /\ query = <<>>
    /\ filtered = items
    /\ selected = 0
    /\ top = 0
    /\ hovered = {}
    /\ opts \in [columns : BOOLEAN, mouse : BOOLEAN, allow_escape_back : BOOLEAN,
                 h : {TermHeight}]
    /\ pc = "draw"
    /\ event = Key("none")
    /\ result = Running
    /\ NoWorkflow

\* draw: the scroll logic that keeps the selected row in view
Draw ==
    /\ pc = "draw"
    /\ top' = IF selected < top THEN selected
              ELSE IF selected >= top + max_items THEN selected - max_items + 1
              ELSE top
    /\ pc' = "getch"
    /\ UNCHANGED <<items, query, filtered, selected, hovered, opts, event, result>>
    /\ UNCHANGED storeVars
    /\ UNCHANGED wfVars

\* the filtered list is not rebuilt at the end of a loop pass
Refiltered_keeping_filtered(ev, q, sel, hov) ==
    /\ event' = ev
    /\ query' = q
    /\ filtered' = filtered
    /\ selected' = IF sel >= Len(filtered') THEN Max(0, Len(filtered') - 1) ELSE sel
    /\ hovered' = hov
    /\ pc' = "draw"
    /\ UNCHANGED <<items, top, opts, result>>
    /\ UNCHANGED storeVars
    /\ UNCHANGED wfVars

\* the end of a loop pass: the filtered list is rebuilt and the selection clamped
Refiltered(ev, q, sel, hov) ==
    /\ event' = ev
    /\ query' = q
    /\ filtered' = fuzzy_filter(items, q)
    /\ selected' = IF sel >= Len(filtered') THEN Max(0, Len(filtered') - 1) ELSE sel
    /\ hovered' = hov
    /\ pc' = "draw"
    /\ UNCHANGED <<items, top, opts, result>>
    /\ UNCHANGED storeVars
    /\ UNCHANGED wfVars

\* run returns or raises
Return(ev, sel, hov, res) ==
    /\ event' = ev
    /\ selected' = sel
    /\ hovered' = hov
    /\ result' = res
    /\ pc' = "done"
    /\ UNCHANGED <<items, query, filtered, top, opts>>
    /\ UNCHANGED storeVars
    /\ UNCHANGED wfVars

KeyUp ==
    /\ pc = "getch"
    /\ Refiltered(Key("KEY_UP"), query, Max(0, selected - 1), hovered)

KeyDown ==
    /\ pc = "getch"
    /\ Refiltered(Key("KEY_DOWN"), query, Min(Len(filtered) - 1, selected + 1), hovered)

KeyEnter ==
    /\ pc = "getch"
    /\ Return(Key("ENTER"), selected, hovered, Subscript(filtered, selected))

\* the allow_escape_back flag ignored: Escape always yields None
KeyEscape_ignoring_flag ==
    /\ pc = "getch"
    /\ Return(Key("ESC"), selected, hovered, ReturnedNone)

KeyEscape ==
    /\ pc = "getch"
    /\ Return(Key("ESC"), selected, hovered,
              IF opts.allow_escape_back THEN ReturnedEscape ELSE ReturnedNone)

\* handle_mouse on a row of the screen, with or without the primary-button
\* click; the return of line 150 is inside the try, so an IndexError of
\* filtered[selected] is swallowed and the loop pass goes on
KeyMouse ==
    /\ pc = "getch"
    /\ opts.mouse
    /\ \E y \in 0..(opts.h - 1), click \in BOOLEAN :
        LET idx == y - row_offset IN
        IF 0 <= idx /\ idx < Min(Len(filtered) - top, max_items)
        THEN IF click
             THEN IF Subscript(filtered, top + idx) = Raised("IndexError")
                  THEN Refiltered(Mouse(y, click), query, top + idx, {top + idx})
                  ELSE Return(Mouse(y, click), top + idx, {top + idx},
                              Subscript(filtered, top + idx))
             ELSE Refiltered(Mouse(y, click), query, selected, {top + idx})
        ELSE Refiltered(Mouse(y, click), query, selected, {})

KeyBackspace ==
    /\ pc = "getch"
    /\ Refiltered(Key("BACKSPACE"), SubSeq(query, 1, Len(query) - 1), selected, hovered)

KeyDeleteWord ==
    /\ pc = "getch"
    /\ Refiltered(Key("CTRL_W"), DeleteWord(query), selected, hovered)

KeyChar ==
    /\ pc = "getch"
    /\ Len(query) < MaxQuery
    /\ \E c \in TypedChars : Refiltered(Key("CHAR"), Append(query, c), selected, hovered)

\* any other key code, KEY_MOUSE without mouse support, or getmouse() failing
KeyOther ==
    /\ pc = "getch"
    /\ Refiltered(Key("OTHER"), query, selected, hovered)

NextSelector ==
    \/ Draw
    \/ KeyUp
    \/ KeyDown
    \/ KeyEnter
    \/ KeyEscape
    \/ KeyMouse
    \/ KeyBackspace
    \/ KeyDeleteWord
    \/ KeyChar
    \/ KeyOther

SpecSelector == InitSelector /\ [][NextSelector]_vars

-----------------------------------------------------------------------------
(* sort_assignments: the filter, the five buckets and the stable sort of   *)
(* each bucket by due date. Dates are ISO texts, compared as str.          *)

MaxAssignments == 3

\* the characters of dates and names, in the order of their codes
CodeOrder ==
    <<"-", ".", "/", "0", "1", "2", "3", "4", "5", "6", "7", "8", "9", "A", "B", "C", "E", "P",
      "S", "_", "a", "b">>

\* ord(c), up to the order
CharOrd(c) == CHOOSE i \in 1..Len(CodeOrder) : CodeOrder[i] = c

\* s < t on str
RECURSIVE StrLess(_, _)
StrLess(s, t) ==
    IF t = <<>> THEN FALSE
    ELSE IF s = <<>> THEN TRUE
    ELSE IF Head(s) = Head(t) THEN StrLess(Tail(s), Tail(t))
    ELSE CharOrd(Head(s)) < CharOrd(Head(t))

\* datetime.now().isoformat(), to the year
Now == <<"2", "0", "2", "6">>

OnlineUpload == "online_upload"

\* 'online_upload' in a list
InList(x, l) == \E i \in 1..Len(l) : l[i] = x

\* isinstance(a.get('submission_types'), list) and 'online_upload' in it
IsValidAssignment(a) ==
    a.submission_types /= None /\ InList(OnlineUpload, a.submission_types)

\* lock_at and lock_at < now
IsLocked(a, now) == a.lock_at /= None /\ a.lock_at /= <<>> /\ StrLess(a.lock_at, now)

\* due_at and due_at < now
IsPastDue(a, now) == a.due_at /= None /\ a.due_at /= <<>> /\ StrLess(a.due_at, now)

BucketNames ==
    <<"future_unsubmitted", "future_submitted", "past_unsubmitted", "past_submitted",
      "locked">>

\* the list an assignment is appended to
BucketOf(a, now) ==
    IF IsLocked(a, now) THEN "locked"
    ELSE IF ~IsPastDue(a, now) /\ ~a.has_submitted_submissions THEN "future_unsubmitted"
    ELSE IF ~IsPastDue(a, now) /\ a.has_submitted_submissions THEN "future_submitted"
    ELSE IF IsPastDue(a, now) /\ ~a.has_submitted_submissions THEN "past_unsubmitted"
    ELSE "past_submitted"

\* a.get('due_at') or '9999-12-31'
DueKey(a) ==
    IF a.due_at = None \/ a.due_at = <<>>
    THEN <<"9", "9", "9", "9", "-", "1", "2", "-", "3", "1">>
    ELSE a.due_at

\* the mutant of the sort: x goes before the entries with an equal key
RECURSIVE InsertByDue_before_equal(_, _)
InsertByDue_before_equal(sorted, x) ==
    IF sorted = <<>> THEN <<x>>
    ELSE IF ~StrLess(DueKey(Head(sorted)), DueKey(x)) THEN <<x>> \o sorted
    ELSE <<Head(sorted)>> \o InsertByDue_before_equal(Tail(sorted), x)

\* x placed into a list sorted by DueKey, after the entries whose key is not greater
RECURSIVE InsertByDue(_, _)
InsertByDue(sorted, x) ==
    IF sorted = <<>> THEN <<x>>
    ELSE IF StrLess(DueKey(x), DueKey(Head(sorted))) THEN <<x>> \o sorted
    ELSE <<Head(sorted)>> \o InsertByDue(Tail(sorted), x)

\* list.sort(key=...): stable
RECURSIVE SortByDue(_)
SortByDue(l) ==
    IF l = <<>> THEN <<>>
    ELSE InsertByDue(SortByDue(SubSeq(l, 1, Len(l) - 1)), l[Len(l)])

\* the assignments of l appended to the bucket called name, in the order of l
RECURSIVE BucketList(_, _, _)
BucketList(l, name, now) ==
    IF l = <<>> THEN <<>>
    ELSE (IF BucketOf(Head(l), now) = name THEN <<Head(l)>> ELSE <<>>)
            \o BucketList(Tail(l), name, now)

RECURSIVE ValidAssignments(_)
ValidAssignments(l) ==
    IF l = <<>> THEN <<>>
    ELSE (IF IsValidAssignment(Head(l)) THEN <<Head(l)>> ELSE <<>>)
            \o ValidAssignments(Tail(l))

sort_assignments(assignments, now) ==
    SortByDue(BucketList(ValidAssignments(assignments), "future_unsubmitted", now))
        \o SortByDue(BucketList(ValidAssignments(assignments), "future_submitted", now))
        \o SortByDue(BucketList(ValidAssignments(assignments), "past_unsubmitted", now))
        \o SortByDue(BucketList(ValidAssignments(assignments), "past_submitted", now))
        \o SortByDue(BucketList(ValidAssignments(assignments), "locked", now))

Assignment(id, types, submitted, due_at, lock_at) ==
    [id |-> id, submission_types |-> types, has_submitted_submissions |-> submitted,
     due_at |-> due_at, lock_at |-> lock_at]

Upload == <<"online_text_entry", OnlineUpload>>
Due2025 == <<"2", "0", "2", "5">>
Due2027 == <<"2", "0", "2", "7">>
Due2028 == <<"2", "0", "2", "8">>

\* the assignments an API answer may hold
AssignmentPool ==
    {Assignment(1, Upload, FALSE, Due2028, None),
     Assignment(2, Upload, FALSE, Due2027, None),
     Assignment(3, Upload, FALSE, Due2027, None),
     Assignment(4, Upload, FALSE, None, None),
     Assignment(5, Upload, TRUE, Due2027, None),
     Assignment(6, Upload, FALSE, Due2025, None),
     Assignment(7, Upload, TRUE, Due2025, None),
     Assignment(8, Upload, FALSE, Due2027, Due2025),
     Assignment(9, <<"online_quiz">>, FALSE, Due2027, None),
     Assignment(10, None, FALSE, Due2027, None)}

\* the lists of distinct assignments of length at most n
AssignmentLists(n) ==
    {l \in SeqsUpTo(AssignmentPool, n) : \A i, j \in 1..Len(l) : l[i] = l[j] => i = j}

InitSort ==
    /\ fs = [p \in Paths |-> NoFile]
    /\ dirs = ProcessDirs
    /\ last = Started
    /\ NoSelector
    /\ NoWorkflow

SortAssignments ==
    /\ last = Started
    /\ \E l \in AssignmentLists(MaxAssignments) :
        last' = Ran("sort_assignments", [assignments |-> l, now |-> Now],
                    [ret |-> sort_assignments(l, Now)])
    /\ UNCHANGED <<fs, dirs>>
    /\ UNCHANGED selVars
    /\ UNCHANGED wfVars

NextSort == SortAssignments \/ Exit

SpecSort == InitSort /\ [][NextSort]_vars

-----------------------------------------------------------------------------
(* tui_main: the Course, Assignment and File pages of the drill-down       *)
(* workflow. A page visit is one pass of the loop: the fetch, the selector *)
(* and the branch on what the selector gave.                               *)

MaxVisits == 7

Range(l) == {l[i] : i \in 1..Len(l)}

ESCAPE == PyStr(<<"_", "_", "E", "S", "C", "A", "P", "E", "_", "_">>)

\* what ListSelector(list, allow_escape_back).run() can give: an item of the list on
\* Enter or a click, None or "__ESCAPE__" on ESC, IndexError on Enter with nothing listed
RunOutcomes(list, allow_escape_back) ==
    {Returned(x) : x \in Range(list)}
        \cup {IF allow_escape_back THEN ReturnedEscape ELSE ReturnedNone}
        \cup {Raised("IndexError")}

\* a dict value
PyDict(d) == <<"dict", d>>

\* the Python value of an outcome that is not an exception
ValueOf(o) ==
    IF o.kind = "item" THEN PyDict(o.v)
    ELSE IF o.kind = "__ESCAPE__" THEN ESCAPE
    ELSE None

Course(id, name, is_favorite) == [id |-> id, name |-> name, is_favorite |-> is_favorite]

\* (not is_favorite, name) of x below that of y
CourseLess(x, y) ==
    \/ x.is_favorite /\ ~y.is_favorite
    \/ x.is_favorite = y.is_favorite /\ StrLess(x.name, y.name)

RECURSIVE InsertCourse(_, _)
InsertCourse(sorted, x) ==
    IF sorted = <<>> THEN <<x>>
    ELSE IF CourseLess(x, Head(sorted)) THEN <<x>> \o sorted
    ELSE <<Head(sorted)>> \o InsertCourse(Tail(sorted), x)

\* the courses with a name, favorites first, then by name
RECURSIVE sort_courses(_)
sort_courses(courses) ==
    IF courses = <<>> THEN <<>>
    ELSE LET x == courses[Len(courses)]
             rest == sort_courses(SubSeq(courses, 1, Len(courses) - 1))
         IN IF x.name = None THEN rest ELSE InsertCourse(rest, x)

CourseA == Course(1, <<"A">>, FALSE)
CourseB == Course(2, <<"B">>, FALSE)
Restricted == Course(3, None, FALSE)

\* what api.get_courses() may answer
CourseAnswers == {<<>>, <<CourseB, CourseA>>, <<Restricted, CourseA>>}

\* an assignment as the API gives it for a course
OfCourse(a, course_id) == [course_id |-> course_id] @@ a

\* what api.get_assignments(course_id) may answer
AssignmentAnswers(course_id) ==
    {<<>>,
     <<OfCourse(Assignment(6, Upload, FALSE, Due2025, None), course_id),
       OfCourse(Assignment(1, Upload, FALSE, Due2028, None), course_id)>>,
     <<OfCourse(Assignment(9, <<"online_quiz">>, FALSE, Due2027, None), course_id)>>}

FilePath == PyStr(<<"/", "cwd", "/", "hw.py">>)
ReturnedPath == [kind |-> "path", v |-> FilePath]

\* what file_selector gives: None on ESC, the path of a file, or the selector's IndexError
FileOutcomes == {ReturnedNone, ReturnedPath, Raised("IndexError")}

Entry(ev, v) == [ev |-> ev, v |-> v]

\* not course or course == "__ESCAPE__"; mutant: nothing counts as no selection
NoSelection_never(v) == FALSE

NoSelection(v) == v = None \/ v = ESCAPE

\* the page after the Assignment page; mutant: Escape is taken for a selection
AfterAssignment_ignoring_escape(v, file_select_enabled) ==
    IF file_select_enabled THEN "file" ELSE "done"

\* the page after the Assignment page; mutant: only None goes back to the courses
AfterAssignment_back_on_none_only(v, file_select_enabled) ==
    IF v = None THEN "course"
    ELSE IF file_select_enabled THEN "file"
    ELSE "done"

AfterAssignment(v, file_select_enabled) ==
    IF NoSelection(v) THEN "course"
    ELSE IF file_select_enabled THEN "file"
    ELSE "done"

\* the default of tui_main's file_select_escape_behavior
DefaultEscapeBehavior == "back"

\* file_select_escape_behavior == "exit"; mutant: no file always goes back
NoFileExits_never(behavior) == FALSE

NoFileExits(behavior) == behavior = "exit"

\* the page visits made so far
Visits == Cardinality({i \in 1..Len(log) : log[i].ev \in {"course_sel", "assign_sel", "file_selector"}})

TuiParams ==
    [file_select_enabled : BOOLEAN, file_select_escape_behavior : {"back", "exit"},
     start_page : {"course", "assignment", "file"}]

InitTui ==
    /\ fs = [p \in Paths |-> NoFile]
    /\ dirs = ProcessDirs
    /\ last = Started
    /\ NoSelector
    /\ params \in TuiParams
    /\ page = params.start_page
    /\ course = None
    /\ assignment = None
    /\ file_path = None
    /\ log = <<>>

\* tui_main returns the triple
TuiReturn(c, a, f) ==
    /\ last' = Ran("tui_main", params, [ret |-> <<c, a, f>>, raised |-> NoError])
    /\ page' = "returned"

\* the selector's exception leaves tui_main
TuiRaise(e) ==
    /\ last' = Ran("tui_main", params, [ret |-> None, raised |-> e])
    /\ page' = "returned"

CoursePage ==
    /\ page = "course"
    /\ Visits < MaxVisits
    /\ \E answer \in CourseAnswers :
       \E o \in RunOutcomes(sort_courses(answer), FALSE) :
        /\ log' = log \o <<Entry("get_courses", answer), Entry("course_sel", o)>>
        /\ IF o.kind = "raise"
           THEN TuiRaise(o.error) /\ UNCHANGED course
           ELSE /\ course' = ValueOf(o)
                /\ IF NoSelection(course')
                   THEN TuiReturn(None, None, None)
                   ELSE page' = "assignment" /\ UNCHANGED last
    /\ UNCHANGED <<fs, dirs, assignment, file_path, params>>
    /\ UNCHANGED selVars

AssignmentPage ==
    /\ page = "assignment"
    /\ Visits < MaxVisits
    /\ IF course = None
       THEN TuiReturn(None, None, None) /\ UNCHANGED <<assignment, log>>
       ELSE \E answer \in AssignmentAnswers(course[2].id) :
            \E o \in RunOutcomes(sort_assignments(answer, Now), TRUE) :
             /\ log' = log \o <<Entry("get_assignments", [course_id |-> course[2].id, ret |-> answer]),
                                Entry("assign_sel", o)>>
             /\ IF o.kind = "raise"
                THEN TuiRaise(o.error) /\ UNCHANGED assignment
                ELSE /\ assignment' = ValueOf(o)
                     /\ page' = AfterAssignment(assignment', params.file_select_enabled)
                     /\ UNCHANGED last
    /\ UNCHANGED <<fs, dirs, course, file_path, params>>
    /\ UNCHANGED selVars

FilePage ==
    /\ page = "file"
    /\ Visits < MaxVisits
    /\ \E o \in FileOutcomes :
        /\ log' = Append(log, Entry("file_selector", o))
        /\ IF o.kind = "raise"
           THEN TuiRaise(o.error) /\ UNCHANGED file_path
           ELSE /\ file_path' = (IF o.kind = "path" THEN o.v ELSE None)
                /\ IF file_path' = None
                   THEN IF NoFileExits(params.file_select_escape_behavior)
                        THEN TuiReturn(course, assignment, None)
                        ELSE page' = "assignment" /\ UNCHANGED last
                   ELSE TuiReturn(course, assignment, file_path')
    /\ UNCHANGED <<fs, dirs, course, assignment, params>>
    /\ UNCHANGED selVars

DonePage ==
    /\ page = "done"
    /\ TuiReturn(course, assignment, file_path)
    /\ UNCHANGED <<fs, dirs, course, assignment, file_path, params, log>>
    /\ UNCHANGED selVars

NextTui == CoursePage \/ AssignmentPage \/ FilePage \/ DonePage

SpecTui == InitTui /\ [][NextTui]_vars

-----------------------------------------------------------------------------
(* fallback_tui: the line-based course, assignment and file stages. A      *)
(* stage either takes its only candidate, or prints the table and then     *)
(* reads lines until one selects. The log keeps every echo and every read. *)

MaxCandidates == 2
MaxReads == 3

PyList(l) == <<"list", l>>

EOFError == <<"EOFError">>
ValueError == <<"ValueError">>

StrLower(s) == [i \in 1..Len(s) |-> IF s[i] = "Q" THEN "q" ELSE Lower(s[i])]

\* str.strip()
RECURSIVE StripLeft(_)
StripLeft(s) == IF s /= <<>> /\ Head(s) \in Whitespace THEN StripLeft(Tail(s)) ELSE s

RECURSIVE StripRight(_)
StripRight(s) ==
    IF s /= <<>> /\ s[Len(s)] \in Whitespace THEN StripRight(SubSeq(s, 1, Len(s) - 1)) ELSE s

Strip(s) == StripLeft(StripRight(s))

\* int(s) of a str: blanks around, a sign, then decimal digits only
py_int(s) ==
    LET t == Strip(s)
        signed == t /= <<>> /\ Head(t) \in {"+", "-"}
        digits == IF signed THEN Tail(t) ELSE t
    IN  IF digits /= <<>> /\ \A i \in 1..Len(digits) : IsDigit(digits[i])
        THEN LET n == ParseDigits(digits, 1, 0).v
             IN PyInt(IF signed /\ Head(t) = "-" THEN -n ELSE n)
        ELSE ValueError

\* the lines a user may type
InputLines ==
    {<<"1">>, <<"2">>, <<"3">>, <<"0">>, <<"-", "1">>, <<" ", "2", " ">>,
     <<"x">>, <<"q">>, <<" ", "Q">>}

Invalid == [kind |-> "invalid"]
Skipped == [kind |-> "skip"]
Picked(i) == [kind |-> "index", i |-> i]

\* the body of a prompt's try block on what input() gave, for n candidates;
\* mutant: the range check starts at 0, and candidates[-1] is the last one
Chosen_from_zero(r, n, file_stage) ==
    IF r = EOFError THEN Invalid
    ELSE IF file_stage /\ StrLower(Strip(r[2])) = <<"q">> THEN Skipped
    ELSE IF py_int(r[2]) = ValueError THEN Invalid
    ELSE IF 0 <= py_int(r[2])[2] /\ py_int(r[2])[2] <= n
         THEN Picked(IF py_int(r[2])[2] = 0 THEN n ELSE py_int(r[2])[2])
    ELSE Invalid

\* the body of a prompt's try block on what input() gave, for n candidates
Chosen(r, n, file_stage) ==
    IF r = EOFError THEN Invalid
    ELSE IF file_stage /\ StrLower(Strip(r[2])) = <<"q">> THEN Skipped
    ELSE IF py_int(r[2]) = ValueError THEN Invalid
    ELSE IF 1 <= py_int(r[2])[2] /\ py_int(r[2])[2] <= n THEN Picked(py_int(r[2])[2])
    ELSE Invalid

InvalidSelection == "Invalid selection. Try again."

\* echo(message, ctx): Settings.quiet and Settings.verbose keep their class
\* defaults, so a message of level "info" is printed
echo(out, message) == Append(out, Entry("echo", message))

\* the title, the header and one row per candidate
RECURSIVE Rows(_, _)
Rows(out, n) == IF n = 0 THEN out ELSE echo(Rows(out, n - 1), "row")

Table(out, title, n) == Rows(echo(echo(out, title), "header"), n)

\* the reads made so far
Reads == Cardinality({i \in 1..Len(log) : log[i].ev = "input"})

\* input() gives the next line, or fails for good once the stream has ended
InputOutcomes ==
    IF \E i \in 1..Len(log) : log[i].ev = "input" /\ log[i].v = EOFError
    THEN {EOFError}
    ELSE {PyStr(l) : l \in InputLines} \cup {EOFError}

CourseC == Course(4, <<"C">>, TRUE)
FallbackCoursePool == <<PyDict(CourseA), PyDict(CourseB), PyDict(CourseC)>>

FallbackAssignmentPool ==
    <<PyDict(Assignment(1, Upload, FALSE, Due2028, None)),
      PyDict(Assignment(6, Upload, FALSE, Due2025, None)),
      PyDict(Assignment(7, Upload, TRUE, Due2025, None))>>

FallbackFilePool ==
    <<PyStr(<<"h", "w", ".", "p", "y">>), PyStr(<<"a", ".", "t", "x", "t">>), PyStr(<<"d", "/">>)>>

Prefixes(pool) == {PyList(SubSeq(pool, 1, n)) : n \in 0..Min(MaxCandidates, Len(pool))}

FallbackParams ==
    [courses : Prefixes(FallbackCoursePool),
     assignments : {None} \cup Prefixes(FallbackAssignmentPool),
     files : {None} \cup Prefixes(FallbackFilePool)]

\* if x: of a list or None; mutant: only None counts as nothing
NonEmpty_unless_none(x) == x /= None

\* if x: of a list or None
NonEmpty(x) == x /= None /\ x[2] /= <<>>

InitFallback ==
    /\ fs = [p \in Paths |-> NoFile]
    /\ dirs = ProcessDirs
    /\ last = Started
    /\ NoSelector
    /\ params \in FallbackParams
    /\ page = "course"
    /\ course = None
    /\ assignment = None
    /\ file_path = None
    /\ log = <<>>

FallbackReturn(c, a, f) ==
    /\ last' = Ran("fallback_tui", params, [ret |-> <<c, a, f>>, raised |-> NoError])
    /\ page' = "returned"

\* lines 15-26: nothing to choose from, the only course, or the table of courses
CourseStage ==
    /\ page = "course"
    /\ IF ~NonEmpty(params.courses)
       THEN FallbackReturn(None, None, None) /\ UNCHANGED <<course, log>>
       ELSE IF Len(params.courses[2]) = 1
       THEN /\ course' = params.courses[2][1]
            /\ page' = "assignment"
            /\ UNCHANGED <<last, log>>
       ELSE /\ log' = Table(log, "Select a course:", Len(params.courses[2]))
            /\ page' = "course_prompt"
            /\ UNCHANGED <<last, course>>
    /\ UNCHANGED <<fs, dirs, assignment, file_path, params>>
    /\ UNCHANGED selVars

\* lines 27-35: one pass of the loop
CoursePrompt ==
    /\ page = "course_prompt"
    /\ Reads < MaxReads
    /\ \E r \in InputOutcomes :
       \E sel \in {Chosen(r, Len(params.courses[2]), FALSE)} :
        IF sel.kind = "index"
        THEN /\ course' = params.courses[2][sel.i]
             /\ log' = Append(log, Entry("input", r))
             /\ page' = "assignment"
        ELSE /\ log' = echo(Append(log, Entry("input", r)), InvalidSelection)
             /\ UNCHANGED <<course, page>>
    /\ UNCHANGED <<fs, dirs, last, assignment, file_path, params>>
    /\ UNCHANGED selVars

\* lines 37-48
AssignmentStage ==
    /\ page = "assignment"
    /\ IF ~NonEmpty(params.assignments)
       THEN /\ assignment' = None
            /\ page' = "file"
            /\ UNCHANGED log
       ELSE IF Len(params.assignments[2]) = 1
       THEN /\ assignment' = params.assignments[2][1]
            /\ page' = "file"
            /\ UNCHANGED log
       ELSE /\ log' = Table(log, "Select an assignment for", Len(params.assignments[2]))
            /\ assignment' = None
            /\ page' = "assignment_prompt"
    /\ UNCHANGED <<fs, dirs, last, course, file_path, params>>
    /\ UNCHANGED selVars

\* lines 49-57: one pass of the loop
AssignmentPrompt ==
    /\ page = "assignment_prompt"
    /\ Reads < MaxReads
    /\ \E r \in InputOutcomes :
       \E sel \in {Chosen(r, Len(params.assignments[2]), FALSE)} :
        IF sel.kind = "index"
        THEN /\ assignment' = params.assignments[2][sel.i]
             /\ log' = Append(log, Entry("input", r))
             /\ page' = "file"
        ELSE /\ log' = echo(Append(log, Entry("input", r)), InvalidSelection)
             /\ UNCHANGED <<assignment, page>>
    /\ UNCHANGED <<fs, dirs, last, course, file_path, params>>
    /\ UNCHANGED selVars

\* lines 59-70, and line 84 when there is nothing to ask
FileStage ==
    /\ page = "file"
    /\ IF ~NonEmpty(params.files)
       THEN /\ file_path' = None
            /\ FallbackReturn(course, assignment, None)
            /\ UNCHANGED log
       ELSE IF Len(params.files[2]) = 1
       THEN /\ file_path' = params.files[2][1]
            /\ FallbackReturn(course, assignment, file_path')
            /\ UNCHANGED log
       ELSE /\ log' = echo(Table(log, "Select a file:", Len(params.files[2])),
                           "  [q] No file / skip file")
            /\ file_path' = None
            /\ page' = "file_prompt"
            /\ UNCHANGED last
    /\ UNCHANGED <<fs, dirs, course, assignment, params>>
    /\ UNCHANGED selVars

\* lines 71-84: one pass of the loop, and the return once it ends
FilePrompt ==
    /\ page = "file_prompt"
    /\ Reads < MaxReads
    /\ \E r \in InputOutcomes :
       \E sel \in {Chosen(r, Len(params.files[2]), TRUE)} :
        IF sel.kind = "invalid"
        THEN /\ log' = echo(Append(log, Entry("input", r)), InvalidSelection)
             /\ UNCHANGED <<file_path, page, last>>
        ELSE /\ file_path' = (IF sel.kind = "skip" THEN None ELSE params.files[2][sel.i])
             /\ log' = Append(log, Entry("input", r))
             /\ FallbackReturn(course, assignment, file_path')
    /\ UNCHANGED <<fs, dirs, course, assignment, params>>
    /\ UNCHANGED selVars

NextFallback ==
    CourseStage \/ CoursePrompt \/ AssignmentStage \/ AssignmentPrompt \/ FileStage \/ FilePrompt

SpecFallback == InitFallback /\ [][NextFallback]_vars

(* fallback_tui on a finite input stream: the first entry of log holds the *)
(* lines of stdin, input() gives them in turn and raises EOFError once     *)
(* they are used up. A pass is two steps, the try block and the echo that  *)
(* follows a failure. A pass that meets EOFError again prints the line it  *)
(* printed before; log keeps one copy of it.                               *)

MaxStream == 2

StreamLines == {<<"1">>, <<"2">>, <<"9">>, <<"q">>}

Streams == SeqsUpTo(StreamLines, MaxStream)

InitStream ==
    /\ fs = [p \in Paths |-> NoFile]
    /\ dirs = ProcessDirs
    /\ last = Started
    /\ NoSelector
    /\ params \in FallbackParams
    /\ page = "course"
    /\ course = None
    /\ assignment = None
    /\ file_path = None
    /\ log \in {<<Entry("stdin", lines)>> : lines \in Streams}

\* input(): the next line of stdin, EOFError when there is none
ReadLine ==
    IF Reads < Len(log[1].v) THEN PyStr(log[1].v[Reads + 1]) ELSE EOFError

EndOfInputSeen == \E i \in 1..Len(log) : log[i].ev = "input" /\ log[i].v = EOFError

\* the record of what input() gave; a further EOFError adds nothing
Logged(r) == IF r = EOFError /\ EndOfInputSeen THEN log ELSE Append(log, Entry("input", r))

\* lines 27-35: one pass of the loop
CoursePromptStream ==
    /\ page = "course_prompt"
    /\ \E r \in {ReadLine} :
       \E sel \in {Chosen(r, Len(params.courses[2]), FALSE)} :
        IF sel.kind = "index"
        THEN /\ course' = params.courses[2][sel.i]
             /\ log' = Append(log, Entry("input", r))
             /\ page' = "assignment"
        ELSE /\ log' = Logged(r)
             /\ page' = "course_invalid"
             /\ UNCHANGED course
    /\ UNCHANGED <<fs, dirs, last, assignment, file_path, params>>
    /\ UNCHANGED selVars

\* lines 49-56: the try block of one pass of the loop
AssignmentPromptStream ==
    /\ page = "assignment_prompt"
    /\ \E r \in {ReadLine} :
       \E sel \in {Chosen(r, Len(params.assignments[2]), FALSE)} :
        IF sel.kind = "index"
        THEN /\ assignment' = params.assignments[2][sel.i]
             /\ log' = Append(log, Entry("input", r))
             /\ page' = "file"
        ELSE /\ log' = Logged(r)
             /\ page' = "assignment_invalid"
             /\ UNCHANGED assignment
    /\ UNCHANGED <<fs, dirs, last, course, file_path, params>>
    /\ UNCHANGED selVars

\* lines 71-82 and 84: the try block of one pass of the loop, and the return once it ends
FilePromptStream ==
    /\ page = "file_prompt"
    /\ \E r \in {ReadLine} :
       \E sel \in {Chosen(r, Len(params.files[2]), TRUE)} :
        IF sel.kind = "invalid"
        THEN /\ log' = Logged(r)
             /\ page' = "file_invalid"
             /\ UNCHANGED <<file_path, last>>
        ELSE /\ file_path' = (IF sel.kind = "skip" THEN None ELSE params.files[2][sel.i])
             /\ log' = Append(log, Entry("input", r))
             /\ FallbackReturn(course, assignment, file_path')
    /\ UNCHANGED <<fs, dirs, course, assignment, params>>
    /\ UNCHANGED selVars

\* lines 35, 57 and 83: echo("Invalid selection. Try again."), and the loop
\* starts over; the line printed after a further EOFError is the one log has
InvalidEcho ==
    /\ page \in {"course_invalid", "assignment_invalid", "file_invalid"}
    /\ log' = IF log[Len(log)].ev = "input" THEN echo(log, InvalidSelection) ELSE log
    /\ page' = IF page = "course_invalid" THEN "course_prompt"
               ELSE IF page = "assignment_invalid" THEN "assignment_prompt"
               ELSE "file_prompt"
    /\ UNCHANGED <<fs, dirs, last, course, assignment, file_path, params>>
    /\ UNCHANGED selVars

NextStream ==
    \/ CourseStage
    \/ CoursePromptStream
    \/ AssignmentStage
    \/ AssignmentPromptStream
    \/ FileStage
    \/ FilePromptStream
    \/ InvalidEcho

\* the function runs on as long as it has a step to take
SpecStream == InitStream /\ [][NextStream]_vars /\ WF_vars(NextStream)

-----------------------------------------------------------------------------
(* handle_push: the values of the command line, of the TUI and of the      *)
(* scope files on their way to submit_assignment.                          *)

KeyFile == <<"f", "i", "l", "e">>

\* what run_tui gives the handler: None, or the triple (course, assignment, file_path)
Triple(c, a, f) == [kind |-> "triple", course |-> c, assignment |-> a, file_path |-> f]
NoTriple == [kind |-> "None"]

OldFile == PyStr(<<"o", "l", "d", ".", "p", "y">>)

TuiResults ==
    {NoTriple}
        \cup {Triple(c, a, f) : c \in {None, PyDict(CourseA), PyDict(CourseB)},
                                a \in {None, FallbackAssignmentPool[1], FallbackAssignmentPool[2]},
                                f \in {None, FilePath}}

\* dict.get("id", None) of a course or an assignment
IdOf(d) == PyInt(d[2].id)

\* ctx.params of the push command: the options as given, None when left out
PushOptions ==
    [course_id : {None, PyInt(7)}, assignment_id : {None, PyInt(8)}, file : {None, OldFile}]

Exiting == Line("Exiting...", <<>>)
MissingIds == Line("Error: Missing course_id, assignment_id.", <<>>)
FileNotProvided == Line("Error: File path must be provided.", <<>>)
FileDoesNotExist(file) == Line("Error: File '{file}' does not exist.", <<StrOf(file)>>)

\* what the handler leaves: the call of submit_assignment (None when not called),
\* whether get_api(ctx) was called, the lines echoed and the exception raised
Pushed(call, api, out, raised) ==
    [submitted |-> call, api |-> api, out |-> out, raised |-> raised]

\* lines 43-65 with the API client obtained before the checks
PushChecked_api_first(course_id, assignment_id, file, existing, api_ready) ==
    IF ~api_ready THEN Pushed(None, TRUE, <<>>, "RuntimeError")
    ELSE IF ~Truthy(course_id) \/ ~Truthy(assignment_id)
    THEN Pushed(None, TRUE, <<MissingIds>>, NoError)
    ELSE IF ~Truthy(file) THEN Pushed(None, TRUE, <<FileNotProvided>>, NoError)
    ELSE IF file \notin existing THEN Pushed(None, TRUE, <<FileDoesNotExist(file)>>, NoError)
    ELSE Pushed(<<course_id, assignment_id, file>>, TRUE, <<>>, NoError)

\* lines 43-65: the checks on the three values, get_api (which raises
\* RuntimeError when the context holds no client) and the call
PushChecked(course_id, assignment_id, file, existing, api_ready) ==
    IF ~Truthy(course_id) \/ ~Truthy(assignment_id)
    THEN Pushed(None, FALSE, <<MissingIds>>, NoError)
    ELSE IF ~Truthy(file) THEN Pushed(None, FALSE, <<FileNotProvided>>, NoError)
    ELSE IF file \notin existing THEN Pushed(None, FALSE, <<FileDoesNotExist(file)>>, NoError)
    ELSE IF ~api_ready THEN Pushed(None, TRUE, <<>>, "RuntimeError")
    ELSE Pushed(<<course_id, assignment_id, file>>, TRUE, <<>>, NoError)

\* lines 39-65, entered with the values the three names hold: lines 39-41
\* assign the names anew from ctx.params and the scope files, so what they
\* held (held_course_id, held_assignment_id, held_file) is not read
PushResolved(f, options, existing, api_ready, held_course_id, held_assignment_id, held_file) ==
    PushChecked(get_cascading_config_value(f, KeyCourseId, options.course_id),
                get_cascading_config_value(f, KeyAssignmentId, options.assignment_id),
                get_cascading_config_value(f, KeyFile, options.file),
                existing, api_ready)

\* handle_push(ctx, course_id, assignment_id, file, tui) with what run_tui gives,
\* the files that exist and whether the context holds an API client; the
\* arguments are the options of ctx.params
handle_push(f, options, tui, tui_result, existing, api_ready) ==
    IF ~tui
    THEN PushResolved(f, options, existing, api_ready,
                      options.course_id, options.assignment_id, options.file)
    ELSE IF tui_result.kind = "None" THEN Pushed(None, FALSE, <<Exiting>>, "Abort")
    ELSE IF tui_result.course = None \/ tui_result.assignment = None
    THEN Pushed(None, FALSE, <<Exiting>>, "Abort")
    ELSE PushResolved(f, options, existing, api_ready,
                      IdOf(tui_result.course), IdOf(tui_result.assignment),
                      IF Truthy(tui_result.file_path) THEN tui_result.file_path ELSE options.file)

\* the mapping of a scope file of a project
PushConfig == <<<<KeyCourseId, PyInt(99)>>, <<KeyAssignmentId, PyInt(5)>>, <<KeyFile, OldFile>>>>

PushDicts == {EmptyDict, ExampleLocal, ExampleGlobal, PushConfig}

PushTexts == {NoFile} \cup {json_dump(d) : d \in PushDicts}

InitPush ==
    /\ fs \in {f \in [Paths -> PushTexts] : f[NestedPath] = NoFile}
    /\ dirs = ProcessDirs
    /\ last = Started
    /\ NoSelector
    /\ NoWorkflow

HandlePush ==
    /\ last = Started
    /\ \E options \in PushOptions, tui \in BOOLEAN, tui_result \in TuiResults,
          existing \in SUBSET {OldFile, FilePath}, api_ready \in BOOLEAN :
        \E r \in {handle_push(fs, options, tui, tui_result, existing, api_ready)} :
            /\ last' = Ran("handle_push",
                           [options |-> options, tui |-> tui, tui_result |-> tui_result,
                            existing |-> existing, api_ready |-> api_ready], r)
            /\ UNCHANGED <<fs, dirs>>
            /\ UNCHANGED selVars
            /\ UNCHANGED wfVars

NextPush == HandlePush \/ Exit

SpecPush == InitPush /\ [][NextPush]_vars

-----------------------------------------------------------------------------
(* handle_pull: from the options to the downloads of one submission.       *)

MaxSubmissions == 3
MaxTyped == 2

\* an attachment and a submission of submission_history, by the keys read
Attachment(name) == [filename |-> name, url |-> <<"url", name>>, display_name |-> name]
Submission(id, attachments, score) == [id |-> id, attachments |-> attachments, score |-> score]

\* the submission of rank id with one file, with a list of no file, without
\* the attachments key, and a graded one
Uploaded(id) == Submission(id, PyList(<<Attachment(id)>>), None)
Bare(id) == Submission(id, PyList(<<>>), None)
TextEntry(id) == Submission(id, None, None)
Graded(id) == Submission(id, PyList(<<Attachment(id)>>), PyInt(90))

Uploads(n) == [i \in 1..n |-> Uploaded(i)]

\* what api.get_submissions may give: {} on an error, or the submission with
\* its history (oldest first) and the assignment's points_possible
NoResponse == [kind |-> "empty"]
Response(history) == [kind |-> "dict", history |-> history, points_possible |-> PyInt(100)]

Histories ==
    {Uploads(n) : n \in 1..MaxSubmissions}
        \cup {[Uploads(n) EXCEPT ![1] = TextEntry(1)] : n \in 2..MaxSubmissions}
        \cup {[Uploads(n) EXCEPT ![n] = Graded(n)] : n \in 2..MaxSubmissions}
        \cup {[Uploads(n) EXCEPT ![n] = Bare(n)] : n \in 1..MaxSubmissions}

Responses == {NoResponse, Response(None), Response(PyList(<<>>))}
                 \cup {Response(PyList(h)) : h \in Histories}

\* the lines typed at typer.prompt; the stream ends after them
TypedLines == {<<"q">>, <<"1">>, <<"0">>, <<"-", "1">>, <<"9">>, <<"x">>}

\* --output-dir: not given, a directory (there or to be made), or a file
OutputDirs == {None, PyStr(<<"out">>), PyStr(<<"hw.py">>)}
IsFile(path) == path = PyStr(<<"hw.py">>)

WantedNumbers == {PyInt(w) : w \in (-(MaxSubmissions + 1))..(MaxSubmissions + 1)}

\* the runs of handle_pull: with every option, at the prompt, and the runs
\* that end before the fetch
PullArgs ==
    [course_id : {None, PyInt(7)}, assignment_id : {None, PyInt(8)},
     submission_number : WantedNumbers \cup {None}, output_dir : OutputDirs,
     tui : {FALSE}, api_ready : {TRUE}, response : Responses, typed : {<<>>},
     declined : BOOLEAN]
        \cup [course_id : {PyInt(7)}, assignment_id : {PyInt(8)},
              submission_number : {None}, output_dir : {None},
              tui : {FALSE}, api_ready : {TRUE}, response : Responses,
              typed : SeqsUpTo(TypedLines, MaxTyped), declined : {FALSE}]
        \cup [course_id : {None, PyInt(7)}, assignment_id : {None, PyInt(8)},
              submission_number : {None}, output_dir : {None},
              tui : BOOLEAN, api_ready : BOOLEAN, response : {Response(PyList(Uploads(1)))},
              typed : {<<>>}, declined : {FALSE}]

\* what the handler leaves: whether get_api(ctx) was called, the calls made
\* on the client, the lines printed and the exception raised
Pulled(api, calls, out, raised) == [api |-> api, calls |-> calls, out |-> out, raised |-> raised]

GetSubmissions(course_id, assignment_id) == <<"get_submissions", course_id, assignment_id>>
DownloadFile(url, path, overwrite) == <<"download_file", url, path, overwrite>>

\* os.path.join(output_dir, filename)
JoinPath(dir, name) == <<dir, name>>

MissingIdsPull == Line("Error: Missing course_id, assignment_id", <<>>)
NotADirectory(dir) == Line("Error: '{output_dir}' is not a valid directory", <<StrOf(dir)>>)
NoSubmissions == Line("Error: No submissions found", <<>>)
MultipleSubmissions == Line("Multiple submissions found. Please select one:", <<>>)
SubmissionLine(index) == Line("Submission {index} - {display_name}", <<index>>)
InvalidNumber == Line("Error: Invalid input. Please enter a valid submission number", <<>>)
OutOfRange(n) ==
    Line("Error: Submission number must be between {lo} and {hi}",
         <<IntToText(-(n - 1)), IntToText(n)>>)
Downloaded(name, dir) == Line("Downloaded {filename} to {output_dir}", <<name, dir>>)
DownloadedAll(n, dir) ==
    Line("Downloaded {n} attachments from the latest submission to {output_dir}", <<n, dir>>)

\* lines 149-158: one download_file per attachment of the submission, a line
\* for each one that gave a response, and the closing line if any did
RECURSIVE DownloadCalls(_, _, _)
DownloadCalls(attachments, dir, force) ==
    IF attachments = <<>> THEN <<>>
    ELSE <<DownloadFile(Head(attachments).url, JoinPath(dir, Head(attachments).filename), force)>>
            \o DownloadCalls(Tail(attachments), dir, force)

DownloadLines(attachments, dir, declined) ==
    IF declined \/ attachments = <<>> THEN <<>>
    ELSE [i \in 1..Len(attachments) |-> Downloaded(attachments[i].filename, dir)]
            \o <<DownloadedAll(Len(attachments), dir)>>

PullDownload(submission, dir, args, calls, out) ==
    IF submission.attachments = None THEN Pulled(TRUE, calls, out, NoError)
    ELSE Pulled(TRUE,
                calls \o DownloadCalls(submission.attachments[2], dir, FALSE),
                out \o DownloadLines(submission.attachments[2], dir, args.declined),
                NoError)

\* lines 130-135: the 1-based index, 0 reading the last entry as submissions[-1];
\* mutant: 0 reads the first entry
Chosen_submission_zero_first(submissions, w) ==
    IF w < 0 THEN submissions[Len(submissions) + w]
    ELSE IF w = 0 THEN submissions[1]
    ELSE submissions[w]

\* lines 130-135: the 1-based index, 0 reading the last entry as submissions[-1]
Chosen_submission(submissions, w) ==
    IF w < 0 THEN submissions[Len(submissions) + w]
    ELSE IF w = 0 THEN submissions[Len(submissions)]
    ELSE submissions[w]

\* lines 125-158
PullSelected(submissions, w, dir, args, calls, out) ==
    IF w < -(Len(submissions) - 1) \/ w > Len(submissions)
    THEN Pulled(TRUE, calls, Append(out, OutOfRange(Len(submissions))), "Exit(1)")
    ELSE IF Chosen_submission(submissions, w).attachments = None
    THEN Pulled(TRUE, calls, out, "TypeError")
    ELSE PullDownload(Chosen_submission(submissions, w), dir, args, calls, out)

\* lines 106-123: the prompt loop on the lines typed, n submissions; it gives
\* the number wanted or the exception that ends the handler
RECURSIVE PromptLoop(_, _, _)
PromptLoop(typed, n, out) ==
    IF typed = <<>> THEN [w |-> None, out |-> out, raised |-> "Abort"]
    ELSE IF StrLower(Head(typed)) = <<"q">>
    THEN [w |-> None, out |-> Append(out, Exiting), raised |-> "Exit(0)"]
    ELSE IF py_int(Head(typed)) = ValueError
    THEN PromptLoop(Tail(typed), n, Append(out, InvalidNumber))
    ELSE IF py_int(Head(typed))[2] < -(n - 1) \/ py_int(Head(typed))[2] > n
    THEN PromptLoop(Tail(typed), n, Append(out, OutOfRange(n)))
    ELSE [w |-> py_int(Head(typed)), out |-> out, raised |-> NoError]

\* lines 95-102: the list of the submissions; the display names need every
\* attachments list, and a score cannot be joined to the text
ListingFails(submissions) ==
    \E i \in 1..Len(submissions) :
        submissions[i].attachments = None \/ Truthy(submissions[i].score)

Listing(submissions) ==
    <<MultipleSubmissions>> \o [i \in 1..Len(submissions) |-> SubmissionLine(i)]

\* the loop's answer r, then lines 125-158
AfterPrompt(r, submissions, dir, args, calls) ==
    IF r.raised /= NoError THEN Pulled(TRUE, calls, r.out, r.raised)
    ELSE PullSelected(submissions, r.w[2], dir, args, calls, r.out)

PullPrompted(submissions, dir, args, calls, out) ==
    IF ListingFails(submissions)
    THEN Pulled(TRUE, calls, Append(out, MultipleSubmissions), "TypeError")
    ELSE AfterPrompt(PromptLoop(args.typed, Len(submissions), out \o Listing(submissions)),
                     submissions, dir, args, calls)

\* lines 70-158: the fetch and what follows
PullFetched(course_id, assignment_id, dir, args) ==
    IF args.response.kind = "empty" \/ args.response.history = None
           \/ args.response.history[2] = <<>>
    THEN Pulled(TRUE, <<GetSubmissions(course_id, assignment_id)>>, <<NoSubmissions>>, NoError)
    ELSE IF Len(args.response.history[2]) = 1
    THEN PullDownload(args.response.history[2][1], dir, args,
                      <<GetSubmissions(course_id, assignment_id)>>, <<>>)
    ELSE IF args.submission_number = None
    THEN PullPrompted(args.response.history[2], dir, args,
                      <<GetSubmissions(course_id, assignment_id)>>, <<>>)
    ELSE PullSelected(args.response.history[2], args.submission_number[2], dir, args,
                      <<GetSubmissions(course_id, assignment_id)>>, <<>>)

\* lines 38-63: the check of the ids, get_api, the output directory
PullChecked(course_id, assignment_id, args) ==
    IF ~Truthy(course_id) \/ ~Truthy(assignment_id)
    THEN Pulled(FALSE, <<>>, <<MissingIdsPull>>, NoError)
    ELSE IF ~args.api_ready THEN Pulled(TRUE, <<>>, <<>>, "RuntimeError")
    ELSE IF args.output_dir /= None /\ IsFile(args.output_dir)
    THEN Pulled(TRUE, <<>>, <<NotADirectory(args.output_dir)>>, "Exit(1)")
    ELSE PullFetched(course_id, assignment_id,
                     IF args.output_dir = None THEN PyStr(<<CwdDir>>) ELSE args.output_dir, args)

\* handle_pull(ctx, course_id, assignment_id, output_dir, tui): with the TUI
\* flag run_tui is called without ctx and raises ValueError
handle_pull(f, args) ==
    IF args.tui THEN Pulled(FALSE, <<>>, <<>>, "ValueError")
    ELSE PullChecked(get_cascading_config_value(f, KeyCourseId, args.course_id),
                     get_cascading_config_value(f, KeyAssignmentId, args.assignment_id),
                     args)

\* os.makedirs(output_dir, exist_ok=True), reached once the client is there
MadeDirs(args, r) ==
    IF args.output_dir /= None /\ ~IsFile(args.output_dir) /\ r.api /\ r.raised /= "RuntimeError"
    THEN {args.output_dir[2][1]}
    ELSE {}

PullTexts == {NoFile, json_dump(ExampleLocal), json_dump(PushConfig)}

InitPull ==
    /\ fs \in {f \in [Paths -> PullTexts] : f[NestedPath] = NoFile}
    /\ dirs = ProcessDirs
    /\ last = Started
    /\ NoSelector
    /\ NoWorkflow

HandlePull ==
    /\ last = Started
    /\ \E args \in PullArgs :
        \E r \in {handle_pull(fs, args)} :
            /\ last' = Ran("handle_pull", args, r)
            /\ dirs' = dirs \cup MadeDirs(args, r)
            /\ UNCHANGED fs
            /\ UNCHANGED selVars
            /\ UNCHANGED wfVars

\* the push of the same process model, on the scope files of InitPull
NextPull == HandlePull \/ HandlePush \/ Exit

SpecPull == InitPull /\ [][NextPull]_vars

-----------------------------------------------------------------------------
(* Two `config set` processes at once. Nothing locks a scope file: each    *)
(* process loads it (lines 14-18), changes its own copy, opens it for      *)
(* writing, which empties it, and writes its dump from the start of the    *)
(* file (lines 20-22). params holds each process's position and copy, log  *)
(* the order of the steps.                                                 *)

Procs == {1, 2}

\* open(path, "w") leaves the file empty; mutant: the text stays
Opened_keeping(text) == IF text = NoFile THEN <<>> ELSE text

\* open(path, "w") leaves the file empty
Opened(text) == <<>>

\* a write of the text new at offset 0 of a file holding old: what old has
\* beyond the length of new stays
Written(old, new) == new \o SubSeq(old, Len(new) + 1, Len(old))

SetArgs == [key : Keys, value : {<<"a">>}, global_ : BOOLEAN, local : BOOLEAN]

Waiting == [pc |-> "start"]

\* a process between two steps: its arguments, the path, its copy of the mapping
Proc(pc_, args, path, config) == [pc |-> pc_, args |-> args, path |-> path, config |-> config]

\* a process at its end: what it printed and raised
Ended(args, out, raised) == [pc |-> "done", args |-> args, out |-> out, raised |-> raised]

LongValue == <<<<KeyCourseId, PyStr(<<"z", "z">>)>>>>

RaceTexts == {NoFile, json_dump(LongValue)}

InitRace ==
    /\ fs \in {f \in [Paths -> RaceTexts] : f[NestedPath] = NoFile}
    /\ dirs = ProcessDirs
    /\ last = Started
    /\ NoSelector
    /\ page = "none"
    /\ course = None
    /\ assignment = None
    /\ file_path = None
    /\ params = [p \in Procs |-> Waiting]
    /\ log = <<>>

Step(p, ev, v) == Entry(ev, [p |-> p, v |-> v])

\* lines 72-79: the check of the scopes and the path
ProcBegin(p) ==
    /\ params[p].pc = "start"
    /\ \E args \in SetArgs :
        /\ params' = [params EXCEPT ![p] =
                        IF args.global_ /\ args.local
                        THEN Ended(args, <<LineBothScopes>>, "BadParameter")
                        ELSE Proc("load", args, get_config_path(fs, args.global_, args.local),
                                  EmptyDict)]
        /\ log' = Append(log, Step(p, "begin", args))
    /\ UNCHANGED fs

\* lines 80-81: config = load_config(config_path); config[key] = value
ProcLoad(p) ==
    /\ params[p].pc = "load"
    /\ \E loaded \in {load_config(fs, params[p].path)} :
        /\ params' = [params EXCEPT ![p] =
                        IF loaded = JSONDecodeError
                        THEN Ended(params[p].args, <<>>, "JSONDecodeError")
                        ELSE Proc("open", params[p].args, params[p].path,
                                  DictSet(loaded, params[p].args.key, PyStr(params[p].args.value)))]
        /\ log' = Append(log, Step(p, "load", loaded))
    /\ UNCHANGED fs

\* line 21: open(path, "w")
ProcOpen(p) ==
    /\ params[p].pc = "open"
    /\ IF Parent(params[p].path) \in dirs
       THEN /\ fs' = [fs EXCEPT ![params[p].path] = Opened(@)]
            /\ params' = [params EXCEPT ![p].pc = "dump"]
       ELSE /\ params' = [params EXCEPT ![p] = Ended(params[p].args, <<>>, "FileNotFoundError")]
            /\ UNCHANGED fs
    /\ log' = Append(log, Step(p, "open", params[p].path))

\* lines 22 and 83: json.dump(config, f, indent=2), the file closed, the line printed
ProcDump(p) ==
    /\ params[p].pc = "dump"
    /\ fs' = [fs EXCEPT ![params[p].path] = Written(@, json_dump(params[p].config))]
    /\ params' = [params EXCEPT ![p] =
                    Ended(params[p].args,
                          <<LineSet(params[p].args.key, params[p].args.value, params[p].path)>>,
                          NoError)]
    /\ log' = Append(log, Step(p, "dump", params[p].path))

RaceFrame ==
    /\ UNCHANGED <<dirs, last, page, course, assignment, file_path>>
    /\ UNCHANGED selVars

Begin == (\E p \in Procs : ProcBegin(p)) /\ RaceFrame

Load == (\E p \in Procs : ProcLoad(p)) /\ RaceFrame

Open == (\E p \in Procs : ProcOpen(p)) /\ RaceFrame

Dump == (\E p \in Procs : ProcDump(p)) /\ RaceFrame

NextRace == Begin \/ Load \/ Open \/ Dump

SpecRace == InitRace /\ [][NextRace]_vars

-----------------------------------------------------------------------------
(* file_selector: the loop that lists a directory, runs a ListSelector on  *)
(* the entries and follows the choice. A path is the sequence of its       *)
(* names; params is the directory tree, file_path the loop's cwd.          *)

NameLower == <<"a">>
NameUpper == <<"B">>
NameEscape == ESCAPE[2]

FileNames == {NameLower, NameUpper, NameEscape}

\* a tree two levels deep: what each name is under the root, and what each
\* name is inside every directory under the root
Trees == [top : [FileNames -> {"none", "file", "dir"}], sub : [FileNames -> {"none", "file"}]]

Root == <<>>

DotDot == <<".", ".">>

\* os.path.dirname(cwd); the root is its own parent
os_path_dirname(path) == IF path = Root THEN Root ELSE SubSeq(path, 1, Len(path) - 1)

\* os.path.join(cwd, name)
os_path_join(path, name) == Append(path, name)

\* os.path.isdir(full)
os_path_isdir(tree, path) ==
    \/ path = Root
    \/ Len(path) = 1 /\ tree.top[path[1]] = "dir"

\* os.listdir(cwd), a set: the order is left to sorted
os_listdir(tree, path) ==
    IF path = Root THEN {n \in FileNames : tree.top[n] /= "none"}
    ELSE {n \in FileNames : tree.sub[n] /= "none"}

\* sorted(names) on str
RECURSIVE sorted(_)
sorted(names) ==
    IF names = {} THEN <<>>
    ELSE LET least == CHOOSE n \in names : \A o \in names \ {n} : StrLess(n, o)
         IN  <<least>> \o sorted(names \ {least})

\* lines 187-195: "..", then each name, a directory with "/" appended
ListEntries(tree, cwd) ==
    LET names == sorted(os_listdir(tree, cwd)) IN
    (IF os_path_dirname(cwd) /= cwd THEN <<DotDot>> ELSE <<>>)
    \o [i \in 1..Len(names) |->
            IF os_path_isdir(tree, os_path_join(cwd, names[i]))
            THEN Append(names[i], "/") ELSE names[i]]

\* what sel.run() gives with allow_escape_back: an entry, "__ESCAPE__", or the
\* IndexError of Enter with nothing listed
RunResults(entries) ==
    {Returned(entries[i]) : i \in 1..Len(entries)} \cup {ReturnedEscape, Raised("IndexError")}

\* the value run returns: the entry, a str, or the str "__ESCAPE__"
RunValue(r) == IF r.kind = "item" THEN PyStr(r.v) ELSE ESCAPE

\* result.endswith("/")
EndsWithSlash(text) == text /= <<>> /\ text[Len(text)] = "/"

Continues(cwd) == [kind |-> "continue", cwd |-> cwd]
ReturnsPath(path) == [kind |-> "path", v |-> path]

\* lines 210-217: what one pass of the loop does with the result of run
Followed(cwd, r) ==
    IF r.kind = "raise" THEN r
    ELSE IF RunValue(r) = None \/ RunValue(r) = ESCAPE THEN ReturnedNone
    ELSE IF RunValue(r) = PyStr(DotDot) THEN Continues(os_path_dirname(cwd))
    ELSE IF EndsWithSlash(RunValue(r)[2])
         THEN Continues(os_path_join(cwd, SubSeq(RunValue(r)[2], 1, Len(RunValue(r)[2]) - 1)))
    ELSE ReturnsPath(os_path_join(cwd, RunValue(r)[2]))

InitFiles ==
    /\ fs = [p \in Paths |-> NoFile]
    /\ dirs = ProcessDirs
    /\ last = Started
    /\ NoSelector
    /\ page = "file"
    /\ course = None
    /\ assignment = None
    /\ params \in Trees
    /\ file_path \in {Root} \cup {<<n>> : n \in {o \in FileNames : params.top[o] = "dir"}}
    /\ log = <<>>

\* one pass of the loop of file_selector whose result of run makes Followed give kind
Pass(kind) ==
    /\ \E r \in RunResults(ListEntries(params, file_path)) :
        \E f \in {Followed(file_path, r)} :
            /\ f.kind = kind
            /\ last' = Ran("file_selector",
                           [cwd |-> file_path, entries |-> ListEntries(params, file_path),
                            picked |-> r], f)
            /\ file_path' = IF kind = "continue" THEN f.cwd ELSE file_path
            /\ page' = IF kind = "continue" THEN "file"
                       ELSE IF kind = "raise" THEN "raised" ELSE "returned"
    /\ UNCHANGED <<fs, dirs, course, assignment, params, log>>
    /\ UNCHANGED selVars

\* lines 212-215: ".." or a directory chosen, the loop goes on
Descend ==
    /\ page = "file"
    /\ Pass("continue")

\* lines 216-217: a file chosen
ChooseFile ==
    /\ page = "file"
    /\ Pass("path")

\* lines 210-211: nothing chosen
Cancel ==
    /\ page = "file"
    /\ Pass("None")

\* line 209: run raises
SelectorFails ==
    /\ page = "file"
    /\ Pass("raise")

NextFiles == Descend \/ ChooseFile \/ Cancel \/ SelectorFails

SpecFiles == InitFiles /\ [][NextFiles]_vars

-----------------------------------------------------------------------------
(* Properties of the configuration store.                                  *)

Target(global_) == IF global_ THEN GLOBAL_CONFIG_PATH ELSE LOCAL_CONFIG_PATH

\* the documented precedence, stated on the two mappings
Resolved(localConfig, globalConfig, key) ==
    IF DictHas(localConfig, key) /\ Truthy(DictGet(localConfig, key))
    THEN DictGet(localConfig, key)
    ELSE IF DictHas(globalConfig, key) THEN DictGet(globalConfig, key)
    ELSE None

\* the line `config get` prints for a resolved value
Reported(key, value, where) ==
    IF value = None THEN LineNotFound(key, where) ELSE LineValue(key, value)

\* the items of d other than key are those of e other than key
SameOtherItems(d, e, key) ==
    {d[i] : i \in {j \in 1..Len(d) : d[j][1] /= key}}
        = {e[i] : i \in {j \in 1..Len(e) : e[j][1] /= key}}

\* no key twice
NoDuplicateKey(d) == \A i, j \in 1..Len(d) : d[i][1] = d[j][1] => i = j

\* C1: get_cascading_config_value returns a non-None override unchanged whatever the
\* files hold; otherwise the Local value when present and truthy, otherwise the Global
\* value, and None when the key is in neither file. Local {course_id: 10} and Global
\* {course_id: 99, assignment_id: 5} resolve course_id to 10 and assignment_id to 5.
C1_CascadePrecedence ==
    last.op = "get_cascading_config_value" =>
        LET localConfig == load_config(last.pre, LOCAL_CONFIG_PATH)
            globalConfig == load_config(last.pre, GLOBAL_CONFIG_PATH)
            key == last.args.key
            ret == last.res.ret
        IN  /\ last.args.override /= None => ret = last.args.override
            /\ last.args.override = None =>
                /\ ret = Resolved(localConfig, globalConfig, key)
                /\ (localConfig = ExampleLocal /\ globalConfig = ExampleGlobal) =>
                    /\ key = KeyCourseId => ret = PyInt(10)
                    /\ key = KeyAssignmentId => ret = PyInt(5)
            /\ fs = last.pre

\* a falsy Local value falls through to a Global value
C1_Witness ==
    /\ last.op = "get_cascading_config_value"
    /\ last.args.override = None
    /\ DictGet(load_config(last.pre, LOCAL_CONFIG_PATH), last.args.key) = PyInt(0)
    /\ DictGet(load_config(last.pre, GLOBAL_CONFIG_PATH), last.args.key) = PyInt(99)
    /\ last.res.ret = PyInt(99)

\* C2: handle_config_get resolves by cascade with both or neither scope flag; with
\* exactly one flag it reads that scope's file only, so a value of the other scope
\* is never reported. A None result is reported as "not found"; no file is modified.
C2_GetScopes ==
    last.op = "handle_config_get" =>
        LET key == last.args.key
            localConfig == load_config(last.pre, LOCAL_CONFIG_PATH)
            globalConfig == load_config(last.pre, GLOBAL_CONFIG_PATH)
            one == IF last.args.global_ THEN globalConfig ELSE localConfig
        IN  /\ last.res.raised = NoError
            /\ fs = last.pre
            /\ (last.args.global_ = last.args.local) =>
                 last.res.out = <<Reported(key, Resolved(localConfig, globalConfig, key),
                                          <<"global or local">>)>>
            /\ (last.args.global_ /= last.args.local) =>
                 last.res.out = <<Reported(key, DictGet(one, key),
                                          PathText(Target(last.args.global_)))>>

\* --global on a key that only the Local file holds: not found
C2_Witness ==
    /\ last.op = "handle_config_get"
    /\ last.args.global_ /\ ~last.args.local
    /\ DictHas(load_config(last.pre, LOCAL_CONFIG_PATH), last.args.key)
    /\ ~DictHas(load_config(last.pre, GLOBAL_CONFIG_PATH), last.args.key)
    /\ last.res.out = <<LineNotFound(last.args.key, PathText(GLOBAL_CONFIG_PATH))>>

\* C3: handle_config_set with at most one scope flag writes key=value into the Global
\* file iff --global is given and into the Local file otherwise, keeps every other
\* key of that file, overwrites the key's old value, and leaves the other files as
\* they were.
C3_SetOneScope ==
    (last.op = "handle_config_set" /\ ~(last.args.global_ /\ last.args.local)) =>
        LET target == Target(last.args.global_)
            before == load_config(last.pre, target)
            after == load_config(fs, target)
        IN  /\ last.res.raised = NoError
            /\ after /= JSONDecodeError
            /\ NoDuplicateKey(after)
            /\ DictGet(after, last.args.key) = PyStr(last.args.value)
            /\ SameOtherItems(before, after, last.args.key)
            /\ \A p \in Paths \ {target} : fs[p] = last.pre[p]

\* the default scope: the Local file held another key and an old value of this key
C3_Witness ==
    /\ last.op = "handle_config_set"
    /\ ~last.args.global_ /\ ~last.args.local
    /\ LET before == load_config(last.pre, LOCAL_CONFIG_PATH)
       IN  /\ Len(before) = 2
           /\ DictGet(before, last.args.key) /= PyStr(last.args.value)
    /\ Len(load_config(fs, LOCAL_CONFIG_PATH)) = 2
    /\ PathExists(fs, GLOBAL_CONFIG_PATH)

\* C4: handle_config_set and handle_config_unset with both --global and --local raise
\* BadParameter and leave every file as it was.
C4_BothScopesRejected ==
    (last.op \in {"handle_config_set", "handle_config_unset"}
        /\ last.args.global_ /\ last.args.local) =>
            /\ last.res.raised = "BadParameter"
            /\ fs = last.pre

\* both flags on a key the Global file holds
C4_Witness ==
    /\ last.op = "handle_config_unset"
    /\ last.args.global_ /\ last.args.local
    /\ DictHas(load_config(last.pre, GLOBAL_CONFIG_PATH), last.args.key)
    /\ DictHas(load_config(last.pre, LOCAL_CONFIG_PATH), last.args.key)
    /\ last.res.raised = "BadParameter"

\* C5: handle_config_unset on its target scope (Local by default, Global with
\* --global): an absent key is reported "not found" without error and every file
\* stays byte-identical (a missing file is not created); a present key is removed,
\* the other items of that file are kept and the other files are untouched.
C5_Unset ==
    (last.op = "handle_config_unset" /\ ~(last.args.global_ /\ last.args.local)) =>
        LET target == Target(last.args.global_)
            key == last.args.key
            before == load_config(last.pre, target)
            after == load_config(fs, target)
        IN  /\ last.res.raised = NoError
            /\ \A p \in Paths \ {target} : fs[p] = last.pre[p]
            /\ ~DictHas(before, key) =>
                /\ last.res.out = <<LineNotFound(key, PathText(target))>>
                /\ fs = last.pre
            /\ DictHas(before, key) =>
                /\ ~DictHas(after, key)
                /\ Len(after) = Len(before) - 1
                /\ SameOtherItems(before, after, key)

\* an absent key, and a target file that a rewrite would change
C5_Witness ==
    /\ last.op = "handle_config_unset"
    /\ ~last.args.global_
    /\ PathExists(last.pre, LOCAL_CONFIG_PATH)
    /\ LET before == load_config(last.pre, LOCAL_CONFIG_PATH)
       IN  /\ ~DictHas(before, last.args.key)
           /\ before /= EmptyDict
           /\ last.pre[LOCAL_CONFIG_PATH] /= json_dump(before)
    /\ fs = last.pre

\* C6: handle_config_list with both or neither scope flag lists the Global mapping
\* overlaid by the Local one: every key of either file once, the Local value for a key
\* of both, recorded as "local" with the Local path iff the key is in the Local file
\* and as "global" with the Global path otherwise. With one flag it lists that
\* scope's keys only, all recorded with that scope.
C6_List ==
    last.op = "handle_config_list" =>
        LET l == last.res.listed
            localConfig == load_config(last.pre, LOCAL_CONFIG_PATH)
            globalConfig == load_config(last.pre, GLOBAL_CONFIG_PATH)
            one == IF last.args.global_ THEN globalConfig ELSE localConfig
            scopeOf(k) == IF last.args.global_ = last.args.local
                          THEN (IF DictHas(localConfig, k) THEN ScopeLocal ELSE ScopeGlobal)
                          ELSE (IF last.args.global_ THEN ScopeGlobal ELSE ScopeLocal)
            pathOf(k) == IF scopeOf(k) = ScopeLocal THEN LOCAL_CONFIG_PATH
                         ELSE GLOBAL_CONFIG_PATH
        IN  /\ fs = last.pre
            /\ NoDuplicateKey(l.config)
            /\ (last.args.global_ = last.args.local) =>
                /\ DictKeys(l.config) = DictKeys(localConfig) \cup DictKeys(globalConfig)
                /\ \A k \in DictKeys(l.config) :
                      DictGet(l.config, k) = IF DictHas(localConfig, k)
                                             THEN DictGet(localConfig, k)
                                             ELSE DictGet(globalConfig, k)
            /\ (last.args.global_ /= last.args.local) => l.config = one
            /\ DictKeys(l.origins) = DictKeys(l.config)
            /\ DictKeys(l.file_paths) = DictKeys(l.config)
            /\ \A k \in DictKeys(l.config) :
                  /\ DictGet(l.origins, k) = scopeOf(k)
                  /\ DictGet(l.file_paths, k) = PyStr(PathText(pathOf(k)))
            /\ l.config /= EmptyDict =>
                /\ Len(last.res.out) = Len(l.config) + 1
                /\ \A i \in 1..Len(l.config) :
                      /\ last.res.out[i].args[1] = l.config[i][1]
                      /\ last.res.out[i].args[2] = StrOf(l.config[i][2])
                      /\ last.args.show_scope =>
                            scopeOf(l.config[i][1])[2] \in
                                {last.res.out[i].args[j] : j \in 3..Len(last.res.out[i].args)}
                      /\ last.args.show_origin =>
                            PathText(pathOf(l.config[i][1])) \in
                                {last.res.out[i].args[j] : j \in 3..Len(last.res.out[i].args)}

\* a key of both files with different values, and a key of the Global file alone
C6_Witness ==
    /\ last.op = "handle_config_list"
    /\ ~last.args.global_ /\ ~last.args.local
    /\ last.args.show_scope /\ last.args.show_origin
    /\ load_config(last.pre, LOCAL_CONFIG_PATH) = ExampleLocal
    /\ load_config(last.pre, GLOBAL_CONFIG_PATH) = ExampleGlobal
    /\ DictGet(last.res.listed.config, KeyCourseId) = PyInt(10)
    /\ DictGet(last.res.listed.origins, KeyCourseId) = ScopeLocal
    /\ DictGet(last.res.listed.origins, KeyAssignmentId) = ScopeGlobal

-----------------------------------------------------------------------------
(* Properties of load_config and save_config.                              *)

\* C7: save_config then load_config on the same path returns exactly the saved
\* mapping, whatever the file held before (the write replaces the file); saving the
\* mapping just loaded leaves the stored mapping unchanged; a path with no file loads
\* as the empty mapping.
C7_SaveLoadRoundTrip ==
    /\ (last.op = "save_config" /\ last.res.raised = NoError) =>
          /\ load_config(fs, last.args.path) = last.args.config
          /\ DictKeys(load_config(fs, last.args.path)) = DictKeys(last.args.config)
    /\ (last.op = "load_config" /\ ~PathExists(last.pre, last.args.path)) =>
          /\ last.res.ret = EmptyDict
          /\ last.res.raised = NoError
    /\ \A path \in StorePaths :
          (Parent(path) \in dirs /\ load_config(fs, path) /= JSONDecodeError) =>
              LET loaded == load_config(fs, path)
                  again == save_config(fs, dirs, path, loaded)
              IN  /\ again.raised = NoError
                  /\ load_config(again.fs, path) = loaded
                  /\ save_config(again.fs, dirs, path, load_config(again.fs, path)).fs
                        = again.fs

\* a save over a file that held a key the new mapping does not have
C7_Witness ==
    /\ last.op = "save_config"
    /\ last.res.raised = NoError
    /\ last.args.path = NestedPath
    /\ LET old == load_config(last.pre, NestedPath)
       IN  /\ old /= JSONDecodeError
           /\ DictHas(old, KeyAssignmentId)
    /\ last.args.config /= EmptyDict
    /\ ~DictHas(last.args.config, KeyAssignmentId)
    /\ ~DictHas(load_config(fs, NestedPath), KeyAssignmentId)

\* C8: save_config creates parent directories as needed: a save to a path whose
\* directory does not exist yet succeeds, and afterwards the file holds the mapping.
C8_SaveCreatesParentDirectories ==
    last.op = "save_config" =>
        /\ last.res.raised = NoError
        /\ PathExists(fs, last.args.path)
        /\ load_config(fs, last.args.path) = last.args.config

-----------------------------------------------------------------------------
(* Properties of fuzzy_filter.                                             *)

\* the characters of q occur in text in order, compared without case
RECURSIVE ContainsInOrder(_, _)
ContainsInOrder(text, q) ==
    IF q = <<>> THEN TRUE
    ELSE IF text = <<>> THEN FALSE
    ELSE IF Lower(Head(text)) = Lower(Head(q)) THEN ContainsInOrder(Tail(text), Tail(q))
    ELSE ContainsInOrder(Tail(text), q)

\* C9: fuzzy_filter returns exactly the items whose key text contains all characters
\* of the query in order, not necessarily contiguous, compared without case, in their
\* original order; the empty query returns the items unchanged; the items are not
\* modified.
C9_FuzzyFilterKeepsExactlyTheMatches ==
    last.op = "fuzzy_filter" =>
        /\ last.res.ret = SelectSeq(last.args.items,
                                    LAMBDA item : ContainsInOrder(item.name, last.args.query))
        /\ last.args.query = <<>> => last.res.ret = last.args.items
        /\ last.res.items = last.args.items

\* C9 on key texts of one line
C9_OnSingleLineTexts ==
    (last.op = "fuzzy_filter"
        /\ \A i \in 1..Len(last.args.items) :
              \A j \in 1..Len(last.args.items[i].name) :
                  last.args.items[i].name[j] /= "\n") =>
        /\ last.res.ret = SelectSeq(last.args.items,
                                    LAMBDA item : ContainsInOrder(item.name, last.args.query))
        /\ last.args.query = <<>> => last.res.ret = last.args.items

-----------------------------------------------------------------------------
(* Properties of ListSelector.                                             *)

\* C10: after every handled event of run, 0 <= selected < len(filtered) whenever
\* filtered is not empty.
C10_SelectedWithinFiltered ==
    (pc = "draw" /\ event /= Key("none") /\ filtered /= <<>>) =>
        (0 <= selected /\ selected < Len(filtered))

\* what Up and Down do to a selection on a list of n rows
MovedUp(sel) == IF sel = 0 THEN 0 ELSE sel - 1
MovedDown(sel, n) == IF sel = n - 1 THEN sel ELSE sel + 1

UpDownStep ==
    /\ event' = Key("KEY_UP") => selected' = MovedUp(selected)
    /\ event' = Key("KEY_DOWN") => selected' = MovedDown(selected, Len(filtered))
    /\ event' \in {Key("KEY_UP"), Key("KEY_DOWN")} => (query' = query /\ filtered' = filtered)

\* C11: with a non-empty filtered list Up and Down move selected by exactly one
\* position and stop at index 0 and at the last index, without wrapping; neither
\* changes query or filtered.
C11_UpDownMoveByOne ==
    [][(pc = "getch" /\ pc' = "draw" /\ filtered /= <<>>) => UpDownStep]_vars

\* the same for a selection that is within the list when the key is read
C11_FromSelectionWithinFiltered ==
    [][(pc = "getch" /\ pc' = "draw" /\ 0 <= selected /\ selected < Len(filtered))
          => UpDownStep]_vars

\* C12: Escape ends the session from any selector state: None without
\* allow_escape_back, the "__ESCAPE__" signal with it, and never an item.
C12_EscapeResult ==
    (pc = "done" /\ event = Key("ESC")) =>
        /\ result = (IF opts.allow_escape_back THEN ReturnedEscape ELSE ReturnedNone)
        /\ opts.allow_escape_back => result /= ReturnedNone
        /\ result.kind \notin {"item", "raise"}

C12_Witness ==
    /\ pc = "done"
    /\ event = Key("ESC")
    /\ opts.allow_escape_back
    /\ query /= <<>>
    /\ selected > 0
    /\ result = ReturnedEscape

\* C13: whenever run reads an event, filtered is fuzzy_filter(items, query) for the
\* query typed so far, and the item Enter returns is the selected-th of the items
\* matching the query, never one the query excludes.
C13_FilteredFollowsQuery ==
    /\ pc = "getch" => filtered = fuzzy_filter(items, query)
    /\ (pc = "done" /\ event = Key("ENTER")) =>
          /\ result = Subscript(fuzzy_filter(items, query), selected)
          /\ result.kind = "item" =>
                \/ query = <<>>
                \/ regex_search(re_compile(JoinedPattern(query)), item_key(result.v))

C13_Witness ==
    /\ pc = "done"
    /\ event = Key("ENTER")
    /\ items = SelectorItems
    /\ query = <<"a", "n">>
    /\ result = Returned(Item(2, Banana))

-----------------------------------------------------------------------------
(* Properties of tui_main.                                                 *)

LastEntry == log[Len(log)]

\* the latest entry of the log for event ev
Latest(ev) == log[CHOOSE i \in 1..Len(log) :
                    log[i].ev = ev /\ \A j \in (i + 1)..Len(log) : log[j].ev /= ev]

\* this step is a visit of the page whose selector is logged as ev
Visit(ev) == log' /= log /\ log'[Len(log')].ev = ev

\* what the selector of this step's visit gave
Given == log'[Len(log')].v

Returns(triple) ==
    /\ page = "returned"
    /\ last.op = "tui_main"
    /\ last.res.raised = NoError
    /\ last.res.ret = triple

\* this step ends tui_main with the triple
ReturnsNext(triple) ==
    /\ page' = "returned"
    /\ last'.op = "tui_main"
    /\ last'.res.raised = NoError
    /\ last'.res.ret = triple

\* C14: each visit to the Course page fetches the course list before the selector
\* is shown; no selection ends tui_main with (None, None, None); a selected course
\* is retained and the Assignment page follows.
C14_CoursePage ==
    /\ \A i \in 1..Len(log) : log[i].ev = "course_sel" =>
          /\ i > 1
          /\ log[i - 1].ev = "get_courses"
          /\ log[i].v \in RunOutcomes(sort_courses(log[i - 1].v), FALSE)
    /\ (log /= <<>> /\ LastEntry.ev = "course_sel") =>
          /\ LastEntry.v.kind \in {"None", "__ESCAPE__"} => Returns(<<None, None, None>>)
          /\ LastEntry.v.kind = "item" =>
                (page = "assignment" /\ course = PyDict(LastEntry.v.v))
    /\ (page = "assignment" /\ course /= None) =>
          (log /= <<>> /\ Latest("course_sel").v = Returned(course[2]))

C14_Witness ==
    /\ Len(log) > 2
    /\ LastEntry.ev = "course_sel"
    /\ LastEntry.v = Returned(CourseB)
    /\ page = "assignment"
    /\ course = PyDict(CourseB)

\* the course selections and the returns to the Course page before entry i
CourseChosenFor(i) ==
    \E j \in 1..(i - 1) :
        /\ log[j].ev = "course_sel"
        /\ log[j].v.kind = "item"
        /\ log[i - 1].v.course_id = log[j].v.v.id
        /\ \A k \in (j + 1)..(i - 1) :
              log[k].ev = "assign_sel" => log[k].v.kind = "item"

\* C15: Escape or no selection on the Assignment page leads back to the Course page,
\* and every assignment selector is shown for a course selected after the last such
\* return; a selected assignment leads to the File page when file selection is
\* enabled and to Done otherwise.
C15_AssignmentPage ==
    /\ [](\A i \in 1..Len(log) : log[i].ev = "assign_sel" =>
            /\ i > 1
            /\ log[i - 1].ev = "get_assignments"
            /\ CourseChosenFor(i))
    /\ [][Visit("assign_sel") =>
            /\ Given.kind \in {"None", "__ESCAPE__"} => page' = "course"
            /\ Given.kind = "item" =>
                  /\ page' = (IF params.file_select_enabled THEN "file" ELSE "done")
                  /\ assignment' = PyDict(Given.v)
                  /\ course' = course]_vars

\* back on the Course page after an Escape, another course was selected and then an
\* assignment of it
C15_Witness ==
    /\ Len(log) = 8
    /\ log[4].ev = "assign_sel"
    /\ log[4].v = ReturnedEscape
    /\ log[2].v = Returned(CourseA)
    /\ log[6].v = Returned(CourseB)
    /\ log[8].ev = "assign_sel"
    /\ log[8].v.kind = "item"
    /\ log[7].v.course_id = CourseB.id
    /\ page = "file"

\* C16: on the File page, no file leads back to the Assignment page when
\* file_select_escape_behavior is "back" (the default) and ends tui_main with
\* (course, assignment, None) when it is "exit"; a file ends it with
\* (course, assignment, file_path), the course and assignment being the ones chosen.
C16_FilePage ==
    /\ DefaultEscapeBehavior = "back"
    /\ [][Visit("file_selector") =>
            /\ (Given.kind = "None" /\ params.file_select_escape_behavior = "back") =>
                  (page' = "assignment" /\ last' = last)
            /\ (Given.kind = "None" /\ params.file_select_escape_behavior = "exit") =>
                  ReturnsNext(<<course, assignment, None>>)
            /\ Given.kind = "path" => ReturnsNext(<<course, assignment, Given.v>>)
            /\ (page' = "returned" /\ Given.kind /= "raise"
                  /\ params.start_page = "course") =>
                  /\ last'.res.ret[1] = PyDict(Latest("course_sel").v.v)
                  /\ last'.res.ret[2] = PyDict(Latest("assign_sel").v.v)]_vars

C16_Witness ==
    /\ params.file_select_escape_behavior = "exit"
    /\ params.start_page = "course"
    /\ log /= <<>>
    /\ LastEntry.ev = "file_selector"
    /\ LastEntry.v = ReturnedNone
    /\ Returns(<<PyDict(CourseA), assignment, None>>)
    /\ assignment[1] = "dict"

\* no file under "back": the Assignment page is shown again
C16_WitnessBack ==
    /\ params.file_select_escape_behavior = DefaultEscapeBehavior
    /\ log /= <<>>
    /\ LastEntry.ev = "file_selector"
    /\ LastEntry.v = ReturnedNone
    /\ page = "assignment"

-----------------------------------------------------------------------------
(* Properties of sort_assignments.                                         *)

Sorted == last.op = "sort_assignments"

\* the bucket of the claim: 5 locked, else 1..4 by due and submitted
Priority(a, now) ==
    IF a.lock_at /= None /\ StrLess(a.lock_at, now) THEN 5
    ELSE LET past == a.due_at /= None /\ StrLess(a.due_at, now)
         IN IF ~past /\ ~a.has_submitted_submissions THEN 1
            ELSE IF ~past THEN 2
            ELSE IF ~a.has_submitted_submissions THEN 3
            ELSE 4

\* a before b by due date, a missing due date last
DueNotAfter(a, b) ==
    \/ b.due_at = None
    \/ a.due_at /= None /\ ~StrLess(b.due_at, a.due_at)

SameDue(a, b) == a.due_at = b.due_at

Uploadable(a) ==
    a.submission_types /= None /\ OnlineUpload \in Range(a.submission_types)

\* the position of x in l
IndexIn(l, x) == CHOOSE i \in 1..Len(l) : l[i] = x

\* the result holds the uploadable assignments, each once, by bucket and due date
FilteredAndOrdered(l, ret, now) ==
    /\ Range(ret) = {a \in Range(l) : Uploadable(a)}
    /\ \A i, j \in 1..Len(ret) : ret[i] = ret[j] => i = j
    /\ \A i, j \in 1..Len(ret) : i < j =>
          \/ Priority(ret[i], now) < Priority(ret[j], now)
          \/ Priority(ret[i], now) = Priority(ret[j], now) /\ DueNotAfter(ret[i], ret[j])

\* l in another order
Reordered(l) ==
    {[i \in 1..Len(l) |-> l[f[i]]] :
        f \in {g \in [1..Len(l) -> 1..Len(l)] : \A i, j \in 1..Len(l) : g[i] = g[j] => i = j}}

\* C17: sort_assignments returns the uploadable assignments, each once, ordered by
\* bucket and within a bucket by due date with a missing due date last, and the
\* result is the same for every order of the input.
C17_SortedWhateverTheInputOrder ==
    Sorted =>
        /\ FilteredAndOrdered(last.args.assignments, last.res.ret, last.args.now)
        /\ \A l \in Reordered(last.args.assignments) :
              sort_assignments(l, last.args.now) = last.res.ret

\* C17 amended: the same, except that assignments of one bucket with the same due
\* date (or both without one) keep the order they have in the input; apart from
\* those the result is the same for every order of the input.
C17_SortedStable ==
    Sorted =>
        LET l == last.args.assignments
            ret == last.res.ret
            now == last.args.now
        IN  /\ FilteredAndOrdered(l, ret, now)
            /\ \A i, j \in 1..Len(ret) :
                  (i < j /\ Priority(ret[i], now) = Priority(ret[j], now)
                     /\ SameDue(ret[i], ret[j])) => IndexIn(l, ret[i]) < IndexIn(l, ret[j])
            /\ \A l2 \in Reordered(l) :
                  LET ret2 == sort_assignments(l2, now)
                  IN /\ Len(ret2) = Len(ret)
                     /\ \A i \in 1..Len(ret) :
                           \/ ret2[i] = ret[i]
                           \/ /\ Priority(ret2[i], now) = Priority(ret[i], now)
                              /\ SameDue(ret2[i], ret[i])

\* a future unsubmitted assignment first and the locked one last, two assignments of
\* one bucket and one due date in between in their input order
C17_Witness ==
    /\ Sorted
    /\ Len(last.args.assignments) = 3
    /\ last.args.assignments[1].id = 8
    /\ last.args.assignments[2].id = 3
    /\ last.args.assignments[3].id = 2
    /\ last.res.ret[1].id = 3
    /\ last.res.ret[2].id = 2
    /\ last.res.ret[3].id = 8

-----------------------------------------------------------------------------
(* Properties of fallback_tui.                                             *)

\* the list is None or has no entry
Absent(x) == x = None \/ x[2] = <<>>

Candidates(stage) ==
    IF stage = "course" THEN params.courses
    ELSE IF stage = "assignment" THEN params.assignments
    ELSE params.files

FallbackReturnsNext(triple) ==
    /\ page' = "returned"
    /\ last'.op = "fallback_tui"
    /\ last'.res.raised = NoError
    /\ last'.res.ret = triple

\* the stage at hand has exactly one candidate
OnlyOne(stage) == page = stage /\ ~Absent(Candidates(stage)) /\ Len(Candidates(stage)[2]) = 1

\* the stage at hand has no list or an empty one
Nothing(stage) == page = stage /\ Absent(Candidates(stage))

\* C18: a stage with exactly one candidate takes it and reads nothing (the log, which
\* keeps every read and every echo, stays as it was); a stage without a list or
\* with an empty one gives None for its position; an empty course list ends
\* fallback_tui with (None, None, None); and whenever fallback_tui has
\* returned, the position of a stage that was passed with one candidate holds
\* that candidate and the position of a stage without candidates holds None,
\* with nothing read or printed when no stage had two candidates or more.
C18_AutoSelection ==
    /\ [](page = "returned" /\ last.op = "fallback_tui" =>
            /\ Absent(params.courses) => last.res.ret = <<None, None, None>>
            /\ ~Absent(params.courses) =>
                /\ Len(params.courses[2]) = 1 => last.res.ret[1] = params.courses[2][1]
                /\ Absent(params.assignments) => last.res.ret[2] = None
                /\ ~Absent(params.assignments) /\ Len(params.assignments[2]) = 1
                        => last.res.ret[2] = params.assignments[2][1]
                /\ Absent(params.files) => last.res.ret[3] = None
                /\ ~Absent(params.files) /\ Len(params.files[2]) = 1
                        => last.res.ret[3] = params.files[2][1]
            /\ (\A st \in {"course", "assignment", "file"} :
                    ~Absent(Candidates(st)) => Len(Candidates(st)[2]) = 1) => log = <<>>)
    /\ [][/\ OnlyOne("course") => course' = params.courses[2][1] /\ log' = log /\ page' = "assignment"
          /\ OnlyOne("assignment") =>
                assignment' = params.assignments[2][1] /\ log' = log /\ page' = "file"
          /\ OnlyOne("file") =>
                /\ file_path' = params.files[2][1]
                /\ log' = log
                /\ FallbackReturnsNext(<<course, assignment, params.files[2][1]>>)
          /\ Nothing("course") => FallbackReturnsNext(<<None, None, None>>) /\ log' = log
          /\ Nothing("assignment") => assignment' = None /\ log' = log /\ page' = "file"
          /\ Nothing("file") =>
                /\ file_path' = None
                /\ log' = log
                /\ FallbackReturnsNext(<<course, assignment, None>>)]_vars

\* one course, one assignment and no file list: (thatCourse, thatAssignment, None),
\* nothing read, nothing printed
C18_Witness ==
    /\ page = "returned"
    /\ last.op = "fallback_tui"
    /\ params.courses = PyList(<<PyDict(CourseA)>>)
    /\ params.assignments = PyList(<<FallbackAssignmentPool[1]>>)
    /\ params.files = None
    /\ last.res.ret = <<PyDict(CourseA), FallbackAssignmentPool[1], None>>
    /\ log = <<>>

\* an empty course list, with an assignment list and a file list given
C18_WitnessNoCourse ==
    /\ page = "returned"
    /\ last.op = "fallback_tui"
    /\ params.courses = PyList(<<>>)
    /\ ~Absent(params.assignments)
    /\ ~Absent(params.files)
    /\ last.res.ret = <<None, None, None>>

\* this step is one pass of the prompt loop of the stage
Prompted(stage) == page = stage /\ log' /= log

\* what input() gave in this step
Read == log'[Len(log) + 1].v

\* the line read is an integer i with 1 <= i <= n
ValidIndex(r, n) ==
    /\ r /= EOFError
    /\ py_int(r[2]) /= ValueError
    /\ 1 <= py_int(r[2])[2]
    /\ py_int(r[2])[2] <= n

IndexRead == py_int(Read[2])[2]

\* the line read is the skip token
SkipToken(r) == r /= EOFError /\ StrLower(Strip(r[2])) = <<"q">>

\* the read is logged, the error is printed, the loop goes on with nothing selected
\* and nothing raised
Reprompted ==
    /\ log' = log \o <<Entry("input", Read), Entry("echo", InvalidSelection)>>
    /\ page' = page
    /\ UNCHANGED <<course, assignment, file_path, last>>

\* C19: every pass of a prompt loop reads one line. In the course and the
\* assignment stage a line that is an integer i with 1 <= i <= len(candidates)
\* selects candidates[i-1] and ends the loop; every other line, 'q' included,
\* prints the error and prompts again with nothing selected and nothing
\* raised. In the file stage 'q' ends the stage with no file, a valid index
\* selects that file, and every other line prints the error and prompts again.
C19_Prompting ==
    [][/\ Prompted("course_prompt") =>
            /\ log'[Len(log) + 1].ev = "input"
            /\ IF ValidIndex(Read, Len(params.courses[2]))
               THEN /\ course' = params.courses[2][IndexRead]
                    /\ page' = "assignment"
                    /\ log' = Append(log, Entry("input", Read))
               ELSE Reprompted
       /\ Prompted("assignment_prompt") =>
            /\ log'[Len(log) + 1].ev = "input"
            /\ IF ValidIndex(Read, Len(params.assignments[2]))
               THEN /\ assignment' = params.assignments[2][IndexRead]
                    /\ page' = "file"
                    /\ log' = Append(log, Entry("input", Read))
               ELSE Reprompted
       /\ Prompted("file_prompt") =>
            /\ log'[Len(log) + 1].ev = "input"
            /\ IF SkipToken(Read)
               THEN /\ file_path' = None
                    /\ FallbackReturnsNext(<<course, assignment, None>>)
               ELSE IF ValidIndex(Read, Len(params.files[2]))
               THEN /\ file_path' = params.files[2][IndexRead]
                    /\ FallbackReturnsNext(<<course, assignment, params.files[2][IndexRead]>>)
               ELSE Reprompted]_vars

InputAt(i, line) == log[i] = Entry("input", PyStr(line))

\* 'q' and then 0 are refused in the course stage, 2 selects the second course
C19_Witness ==
    /\ page = "assignment"
    /\ Len(params.courses[2]) = 2
    /\ course = params.courses[2][2]
    /\ Len(log) = 9
    /\ InputAt(5, <<"q">>)
    /\ log[6] = Entry("echo", InvalidSelection)
    /\ InputAt(7, <<"0">>)
    /\ log[8] = Entry("echo", InvalidSelection)
    /\ InputAt(9, <<"2">>)

\* 'q' ends the file stage with no file
C19_WitnessSkip ==
    /\ page = "returned"
    /\ last.op = "fallback_tui"
    /\ ~Absent(params.files)
    /\ Len(params.files[2]) = 2
    /\ log /= <<>>
    /\ InputAt(Len(log), <<"q">>)
    /\ last.res.ret[3] = None
    /\ last.res.ret[1] /= None

-----------------------------------------------------------------------------
(* Properties of handle_push.                                              *)

\* C20: when handle_push has run with the TUI flag and the workflow gave a
\* course, an assignment and the path of an existing file, submit_assignment
\* was called with the course's id, the assignment's id and that path,
\* whatever the scope files hold.
C20_TuiValuesSubmitted ==
    (/\ last /= Started
     /\ last.op = "handle_push"
     /\ last.args.tui
     /\ last.args.tui_result.kind = "triple"
     /\ last.args.tui_result.course /= None
     /\ last.args.tui_result.assignment /= None
     /\ last.args.tui_result.file_path /= None
     /\ last.args.tui_result.file_path \in last.args.existing
     /\ last.args.api_ready)
        => last.res.submitted = <<IdOf(last.args.tui_result.course),
                                  IdOf(last.args.tui_result.assignment),
                                  last.args.tui_result.file_path>>

-----------------------------------------------------------------------------
(* Properties of handle_push and handle_pull without the TUI.              *)

\* what key resolves to for the run recorded in last: the command line's
\* option, then the Local file, then the Global file
ResolvedFor(key, option) ==
    IF option /= None THEN option
    ELSE Resolved(load_config(last.pre, LOCAL_CONFIG_PATH),
                  load_config(last.pre, GLOBAL_CONFIG_PATH), key)

RanWithoutTui(op) == last /= Started /\ last.op = op /\ ~last.args.tui

NoIdsPush ==
    \/ ResolvedFor(KeyCourseId, last.args.options.course_id) = None
    \/ ResolvedFor(KeyAssignmentId, last.args.options.assignment_id) = None

NoFilePush ==
    \/ ResolvedFor(KeyFile, last.args.options.file) = None
    \/ ResolvedFor(KeyFile, last.args.options.file) \notin last.args.existing

NoIdsPull ==
    \/ ResolvedFor(KeyCourseId, last.args.course_id) = None
    \/ ResolvedFor(KeyAssignmentId, last.args.assignment_id) = None

\* C21: a push without the TUI whose course_id or assignment_id resolves to
\* nothing, or whose file resolves to nothing or does not exist, has printed
\* its error and returned with get_api never called and nothing submitted;
\* a pull without the TUI whose course_id or assignment_id resolves to
\* nothing has printed its error and returned with get_api never called
\* and no call of get_submissions or download_file.
C21_MissingConfigurationAborts ==
    /\ RanWithoutTui("handle_push") /\ (NoIdsPush \/ NoFilePush) =>
            /\ last.res.raised = NoError
            /\ ~last.res.api
            /\ last.res.submitted = None
            /\ last.res.out = IF NoIdsPush THEN <<MissingIds>>
                              ELSE IF ResolvedFor(KeyFile, last.args.options.file) = None
                              THEN <<FileNotProvided>>
                              ELSE <<FileDoesNotExist(ResolvedFor(KeyFile, last.args.options.file))>>
    /\ RanWithoutTui("handle_pull") /\ NoIdsPull =>
            /\ last.res.raised = NoError
            /\ ~last.res.api
            /\ last.res.calls = <<>>
            /\ last.res.out = <<MissingIdsPull>>

\* a push with the course from the Local file, no assignment anywhere, and a
\* client at hand
C21_Witness ==
    /\ RanWithoutTui("handle_push")
    /\ last.args.api_ready
    /\ ResolvedFor(KeyCourseId, last.args.options.course_id) = PyInt(10)
    /\ ResolvedFor(KeyAssignmentId, last.args.options.assignment_id) = None
    /\ last.res.out = <<MissingIds>>

\* a pull with the assignment given and no course anywhere
C21_WitnessPull ==
    /\ RanWithoutTui("handle_pull")
    /\ last.args.api_ready
    /\ last.args.assignment_id = PyInt(8)
    /\ ResolvedFor(KeyCourseId, last.args.course_id) = None
    /\ last.res.out = <<MissingIdsPull>>

\* a push with both ids and a file that does not exist
C21_WitnessFile ==
    /\ RanWithoutTui("handle_push")
    /\ last.args.api_ready
    /\ ~NoIdsPush
    /\ ResolvedFor(KeyFile, last.args.options.file) = OldFile
    /\ OldFile \notin last.args.existing
    /\ last.res.out = <<FileDoesNotExist(OldFile)>>

-----------------------------------------------------------------------------
(* Properties of the submission number of handle_pull.                     *)

\* the run recorded in last came to choose among two submissions or more
\* with --submission-number given
ChoseByNumber ==
    /\ RanWithoutTui("handle_pull")
    /\ ~NoIdsPull
    /\ Truthy(ResolvedFor(KeyCourseId, last.args.course_id))
    /\ Truthy(ResolvedFor(KeyAssignmentId, last.args.assignment_id))
    /\ last.args.api_ready
    /\ ~(last.args.output_dir /= None /\ IsFile(last.args.output_dir))
    /\ last.args.response.kind = "dict"
    /\ last.args.response.history /= None
    /\ Len(last.args.response.history[2]) >= 2
    /\ last.args.submission_number /= None

History == last.args.response.history[2]
Wanted == last.args.submission_number[2]

\* the submission the number stands for: the w-th for w >= 1, the latest for
\* 0, the (n + w)-th for w < 0
Designated == History[IF Wanted >= 1 THEN Wanted ELSE Len(History) + Wanted]

\* the files download_file was called for
FilesAsked ==
    [i \in 1..(Len(last.res.calls) - 1) |-> last.res.calls[i + 1][2]]

FilesOf(submission) ==
    IF submission.attachments = None THEN <<>>
    ELSE [i \in 1..Len(submission.attachments[2]) |-> submission.attachments[2][i].url]

C22_WitnessLatest ==
    /\ ChoseByNumber
    /\ History = Uploads(3)
    /\ Wanted = 0
    /\ FilesAsked = <<Attachment(3).url>>

\* three submissions and -3: refused
C22_WitnessRefused ==
    /\ ChoseByNumber
    /\ History = Uploads(3)
    /\ Wanted = -3
    /\ last.res.raised = "Exit(1)"
    /\ last.res.calls = <<GetSubmissions(PyInt(7), PyInt(8))>>

-----------------------------------------------------------------------------
(* Properties of two `config set` processes at once.                       *)

\* the place in log of the step ev of process p, 0 when it has not happened
StepOf(p, ev) ==
    IF \E i \in 1..Len(log) : log[i].ev = ev /\ log[i].v.p = p
    THEN CHOOSE i \in 1..Len(log) : log[i].ev = ev /\ log[i].v.p = p
    ELSE 0

\* the mapping process p loaded
LoadedBy(p) == log[StepOf(p, "load")].v.v

\* the file process p wrote
WrittenBy(p) == log[StepOf(p, "dump")].v.v

\* process p wrote its file, and since it opened the file no other process
\* has opened or written it
LastWriter(p) ==
    /\ StepOf(p, "dump") > 0
    /\ \A i \in (StepOf(p, "open") + 1)..Len(log) :
        log[i].ev \in {"open", "dump"} /\ log[i].v.v = WrittenBy(p) => log[i].v.p = p

\* both loaded the same file before either opened it, and set different keys
BothLoadedFirst(p, q) ==
    /\ p /= q
    /\ StepOf(p, "dump") > 0
    /\ StepOf(q, "dump") > 0
    /\ WrittenBy(p) = WrittenBy(q)
    /\ StepOf(p, "load") < StepOf(q, "open")
    /\ StepOf(q, "load") < StepOf(p, "open")
    /\ params[p].args.key /= params[q].args.key

\* C23: a save replaces the whole file by what the writer loaded with its own
\* key set: after the last writer's save the file is the dump of that, so when
\* two processes loaded before either saved, the other one's key is in the
\* file only if it was there when the last writer loaded
C23_LastWriterWins ==
    \A p \in Procs :
        LastWriter(p) =>
            /\ fs[WrittenBy(p)] =
                   json_dump(DictSet(LoadedBy(p), params[p].args.key, PyStr(params[p].args.value)))
            /\ \A q \in Procs :
                BothLoadedFirst(p, q) =>
                    /\ DictHas(json_load(fs[WrittenBy(p)]), params[q].args.key)
                           = DictHas(LoadedBy(p), params[q].args.key)
                    /\ DictHas(LoadedBy(p), params[q].args.key) =>
                           DictGet(json_load(fs[WrittenBy(p)]), params[q].args.key)
                               = DictGet(LoadedBy(p), params[q].args.key)

\* both loaded the absent local file, process 1 saved course_id, then process 2
\* saved assignment_id: the file holds assignment_id alone
C23_Witness ==
    /\ BothLoadedFirst(2, 1)
    /\ LastWriter(2)
    /\ StepOf(1, "dump") < StepOf(2, "open")
    /\ params[1].raised = NoError
    /\ params[2].raised = NoError
    /\ params[1].args.key = KeyCourseId
    /\ LoadedBy(1) = EmptyDict
    /\ fs[WrittenBy(2)] = json_dump(<<<<KeyAssignmentId, PyStr(<<"a">>)>>>>)

-----------------------------------------------------------------------------
(* Properties of the search line, the scrolling and the mouse.             *)

\* a loop pass of run on one of the editing keys
Edited(ev) == pc = "getch" /\ event' = Key(ev) /\ pc' /= "getch"

\* t is s without its trailing word: s is t, then a run of non-blanks that t
\* does not continue, then blanks only
TrailingWordRemoved(s, t) ==
    \E k \in 1..Len(s) :
        /\ Len(t) < k
        /\ t = SubSeq(s, 1, Len(t))
        /\ \A j \in (Len(t) + 1)..k : s[j] \notin Whitespace
        /\ \A j \in (k + 1)..Len(s) : s[j] \in Whitespace
        /\ t = <<>> \/ t[Len(t)] \in Whitespace

\* C24: a printable character is appended to query, Backspace removes the last
\* character (an empty query stays empty), delete-word removes the trailing
\* word with the blanks after it and nothing else; none of the three ends the
\* session or changes items
C24_SearchEditing ==
    [][/\ Edited("CHAR") =>
            /\ \E c \in TypedChars : query' = Append(query, c)
            /\ items' = items /\ pc' = "draw" /\ result' = Running
       /\ Edited("BACKSPACE") =>
            /\ query = <<>> => query' = <<>>
            /\ query /= <<>> => Len(query') = Len(query) - 1 /\ query = Append(query', query[Len(query)])
            /\ items' = items /\ pc' = "draw" /\ result' = Running
       /\ Edited("CTRL_W") =>
            /\ (\E j \in 1..Len(query) : query[j] \notin Whitespace) => TrailingWordRemoved(query, query')
            /\ (\A j \in 1..Len(query) : query[j] \in Whitespace) => query' = query
            /\ items' = items /\ pc' = "draw" /\ result' = Running]_vars

\* "a n" typed, then delete-word: "a " is left
C24_Witness ==
    /\ event = Key("CTRL_W")
    /\ pc = "draw"
    /\ query = <<"a", " ">>
    /\ items = SelectorItems
    /\ result = Running

\* a bound of a slice on a sequence of n elements
SliceBound(i, n) == IF i < 0 THEN Max(i + n, 0) ELSE Min(i, n)

\* seq[a:b]
Slice(seq, a, b) == SubSeq(seq, SliceBound(a, Len(seq)) + 1, SliceBound(b, Len(seq)))

\* lines 84-89: the rows drawn, and whether one of them is shown as selected
DrawnRows == Slice(filtered, top, top + max_items)

SelectedDrawn == \E idx \in 0..(Len(DrawnRows) - 1) : idx + top = selected

\* C25: after every draw top <= selected < top + max_items, and when something
\* is listed the selected row is among the rows drawn
C25_SelectedRowInView ==
    pc = "getch" =>
        /\ top <= selected
        /\ selected < top + max_items
        /\ filtered /= <<>> => SelectedDrawn

\* the window alone: after every draw top <= selected < top + max_items
C25_WindowFollowsSelected ==
    pc = "getch" => top <= selected /\ selected < top + max_items

\* a loop pass of run on a mouse event
MouseStep == pc = "getch" /\ event'.key = "KEY_MOUSE" /\ pc' /= "getch"

\* the event is on screen row row_offset + i with 0 <= i < min(len(filtered) - top, max_items)
OnItemRow(i) == 0 <= i /\ i < Min(Len(filtered) - top, max_items)

\* what the mouse model says of one loop pass on the event ev
MouseModel(ev) ==
    LET i == ev.y - row_offset IN
    IF OnItemRow(i)
    THEN /\ hovered' = {top + i}
         /\ ~ev.click => selected' = selected /\ pc' = "draw" /\ result' = Running
         /\ ev.click =>
                /\ selected' = top + i
                /\ pc' = "done"
                /\ result'.kind = "item"
                /\ result' = Subscript(filtered, selected')
    ELSE /\ hovered' = {}
         /\ selected' = selected
         /\ pc' = "draw"
         /\ result' = Running
         /\ <<items', query', filtered', top'>> = <<items, query, filtered, top>>

\* C26: an event on an item row sets hovered to top + i; without the click it
\* leaves selected alone and does not commit, with it selected is that row and
\* run returns filtered[selected]; an event on another row clears hovered,
\* changes nothing else and does not commit
C26_MouseModel == [][MouseStep => MouseModel(event')]_vars

\* the same while the window starts at a row of the list (top >= 0)
C26_FromWindowWithinFiltered == [][MouseStep /\ top >= 0 => MouseModel(event')]_vars

\* run has ended on Enter or on a click
Committed == pc = "done" /\ event.key \in {"ENTER", "KEY_MOUSE"}

\* C28: a commit returns an element of the current filtered list, the selected
\* one; Enter neither fails nor returns an item when nothing is listed
C28_CommitReturnsListedItem ==
    Committed =>
        /\ result.kind /= "raise"
        /\ filtered = <<>> => result.kind /= "item"
        /\ result.kind = "item" =>
            /\ \E i \in 1..Len(filtered) : filtered[i] = result.v
            /\ result = Subscript(filtered, selected)

\* when something is listed a commit returns filtered[selected]
C28_CommitOnListedItems ==
    (Committed /\ filtered /= <<>>) =>
        /\ result.kind = "item"
        /\ result = Subscript(filtered, selected)
        /\ \E i \in 1..Len(filtered) : filtered[i] = result.v

-----------------------------------------------------------------------------
(* Properties of file_selector.                                            *)

\* a step is one pass of the loop
LoopPass == page = "file" /\ <<last', page'>> /= <<last, page>>

\* what the name n is in the directory cwd of the tree
KindIn(tree, cwd, n) == IF cwd = Root THEN tree.top[n] ELSE tree.sub[n]

\* the name an entry shows
NameOfEntry(e) == IF e[Len(e)] = "/" THEN SubSeq(e, 1, Len(e) - 1) ELSE e

\* entries lists the directory cwd: ".." first iff cwd is not the root, then
\* the names in lexicographic order, the directories with "/" appended
ListsDirectory(tree, cwd, entries) ==
    LET rest == IF cwd /= Root THEN Tail(entries) ELSE entries IN
    /\ cwd /= Root <=> (entries /= <<>> /\ entries[1] = DotDot)
    /\ \A i \in 1..Len(rest) : rest[i] /= DotDot
    /\ {NameOfEntry(rest[i]) : i \in 1..Len(rest)} = {n \in FileNames : KindIn(tree, cwd, n) /= "none"}
    /\ \A i \in 1..Len(rest) : \A j \in (i + 1)..Len(rest) :
            StrLess(NameOfEntry(rest[i]), NameOfEntry(rest[j]))
    /\ \A i \in 1..Len(rest) :
            (rest[i][Len(rest[i])] = "/") <=> KindIn(tree, cwd, NameOfEntry(rest[i])) = "dir"

\* the entry picked is a file of the directory
FileEntry(tree, cwd, r) == r.kind = "item" /\ r.v /= DotDot /\ KindIn(tree, cwd, NameOfEntry(r.v)) = "file"

\* the entry picked is a directory of the directory
DirectoryEntry(tree, cwd, r) == r.kind = "item" /\ r.v /= DotDot /\ KindIn(tree, cwd, NameOfEntry(r.v)) = "dir"

\* what the navigator does in one pass with the choice r
Navigates(r) ==
    /\ ListsDirectory(params, file_path, last'.args.entries)
    /\ r = Returned(DotDot) =>
            page' = "file" /\ file_path' = SubSeq(file_path, 1, Len(file_path) - 1)
    /\ DirectoryEntry(params, file_path, r) =>
            page' = "file" /\ file_path' = Append(file_path, NameOfEntry(r.v))
    /\ FileEntry(params, file_path, r) =>
            page' = "returned" /\ last'.res = ReturnsPath(Append(file_path, r.v))
    /\ r = ReturnedEscape => page' = "returned" /\ last'.res = ReturnedNone
    /\ page' = "returned" => r = ReturnedEscape \/ FileEntry(params, file_path, r)

\* C27: each pass lists the directory (".." first iff not the root, the names
\* in order, directories with "/"); ".." and a directory re-root and the loop
\* goes on; a file ends the loop with cwd joined with its name; Escape ends it
\* with None; the function returns on nothing else
C27_FileNavigator == [][LoopPass => Navigates(last'.args.picked)]_vars

\* the same for every choice but a file named __ESCAPE__
C27_ExceptSentinelName ==
    [][LoopPass /\ last'.args.picked /= Returned(NameEscape) => Navigates(last'.args.picked)]_vars

-----------------------------------------------------------------------------
(* Termination of the prompt loops of fallback_tui.                        *)

\* C29: every prompt loop is left in the end, whatever stdin holds and also
\* when stdin has run out
C29_PromptLoopsExit ==
    /\ page = "course_prompt" ~> page \notin {"course_prompt", "course_invalid"}
    /\ page = "assignment_prompt" ~> page \notin {"assignment_prompt", "assignment_invalid"}
    /\ page = "file_prompt" ~> page \notin {"file_prompt", "file_invalid"}

\* a loop is left by the pass that reads a valid index, or 'q' at the file stage
C29_ValidIndexEndsLoop ==
    [][/\ (page = "course_prompt" /\ Chosen(ReadLine, Len(params.courses[2]), FALSE).kind = "index")
            => page' = "assignment"
       /\ (page = "assignment_prompt" /\ Chosen(ReadLine, Len(params.assignments[2]), FALSE).kind = "index")
            => page' = "file"
       /\ (page = "file_prompt" /\ Chosen(ReadLine, Len(params.files[2]), TRUE).kind /= "invalid")
            => page' = "returned"]_vars

-----------------------------------------------------------------------------
(* Consistency of what tui_main returns.                                   *)

\* tui_main, started on the Course page, has returned a triple
ReturnedFromCourseStart ==
    /\ page = "returned"
    /\ last.op = "tui_main"
    /\ last.res.raised = NoError
    /\ params.start_page = "course"

\* the assignments a course was given at the latest fetch
LatestFetch == Latest("get_assignments").v

\* C30: started on the Course page, tui_main returns (None, None, None), or a
\* course and an assignment that the latest Assignment page gave, out of the
\* list fetched for that very course; the file is there only when file
\* selection is enabled
C30_ResultConsistency ==
    ReturnedFromCourseStart =>
        LET ret == last.res.ret IN
        \/ ret = <<None, None, None>>
        \/ /\ ret[1] \notin {None, ESCAPE}
           /\ ret[2] \notin {None, ESCAPE}
           /\ Latest("course_sel").v = Returned(ret[1][2])
           /\ Latest("assign_sel").v = Returned(ret[2][2])
           /\ LatestFetch.course_id = ret[1][2].id
           /\ ret[2][2] \in Range(LatestFetch.ret)
           /\ ret[2][2].course_id = ret[1][2].id
           /\ ret[3] /= None => params.file_select_enabled

\* an assignment of course A was chosen, then file selection and the
\* Assignment page were left backwards, course B chosen and an assignment of B
C30_Witness ==
    /\ ReturnedFromCourseStart
    /\ last.res.ret[1] = PyDict(CourseB)
    /\ last.res.ret[2] /= None
    /\ last.res.ret[2][2].course_id = CourseB.id
    /\ last.res.ret[3] = FilePath
    /\ \E i \in 1..Len(log) :
        log[i].ev = "assign_sel" /\ log[i].v.kind = "item" /\ log[i].v.v.course_id = CourseA.id

\* Escape on the Assignment page, then a course and an assignment chosen, no file asked
C30_WitnessEscape ==
    /\ ReturnedFromCourseStart
    /\ ~params.file_select_enabled
    /\ last.res.ret[1] /= None
    /\ last.res.ret[3] = None
    /\ \E i \in 1..Len(log) : log[i].ev = "assign_sel" /\ log[i].v = ReturnedEscape

====
